---- MODULE Spec2Model ----
(***************************************************************************)
(* Transaction scoring pipeline of the behavioural fraud detector:         *)
(* the SQLite store (database_manager.py), the feature engine              *)
(* (data_processing.py), the classifier adapter (fraud_prediction.py) and  *)
(* the orchestrator process_transaction (simulator.py).                    *)
(*                                                                         *)
(* Numbers.  A REAL column or a Python float is a double, named           *)
(* [n, d, ulps]: the double ulps steps above (below, when negative) the    *)
(* double nearest to the rational n / d (lowest terms).  The arithmetic of *)
(* the code is binary64, so a stored average can lie beside the double of  *)
(* the exact mean.  An amount is the double float(amount) of a decimal,    *)
(* [n, d, 0]; Rupees wraps whole amounts.  Probabilities are integers in   *)
(* units of 1e-5.  Where the code rounds a float (round(x, 4), the .1f and *)
(* .1% formats) the result is the decimal nearest to the double the code   *)
(* has computed: a value halfway between two decimals goes to the side on  *)
(* which the IEEE-754 binary64 arithmetic of the code has left the double. *)
(*                                                                         *)
(* Timestamps.  A timestamp is TEXT.  <<>> is "".  Any other text is a     *)
(* date followed by 'T' and the tuple of the characters after it: a digit  *)
(* is its value 0..9, Plus is '+', G a letter other than Z and Z the       *)
(* letter Z; in the order of the characters Plus < digits < ':' < G < Z.   *)
(* In every run of digits a ':' stands before the third and before the     *)
(* fifth digit and is left out of the tuple.  The date is 2024-01-01; each *)
(* leading Eve moves it one day back.  <<1,0,3,0,0,0>> is                  *)
(* "2024-01-01T10:30:00", <<1,0,3,0>> is "2024-01-01T10:30",               *)
(* <<1,0,3,0,0,0,Z>> is "2024-01-01T10:30:00Z",                            *)
(* <<0,9,3,0,0,0,Plus,0,0,0,0>> is "2024-01-01T09:30:00+00:00",            *)
(* <<Eve,2,3,3,0,0,0>> is "2023-12-31T23:30:00" and <<G>> is               *)
(* "2024-01-01TG", a text that names no time.                              *)
(***************************************************************************)
EXTENDS Integers, Sequences, FiniteSets, TLC

VARIABLES
    transactions,     \* rows of table transactions
    user_profiles,    \* rows of table user_profiles
    bundle,           \* fraud_prediction._bundle; loaded = FALSE is None
    pc,               \* per caller: position inside process_transaction
    txn,              \* per caller: the transaction argument
    user_profile,     \* per caller: profile read at simulator.py:99
    velocity,         \* per caller: velocity read at simulator.py:100
    result,           \* per caller: result of predict_fraud
    profile,          \* per caller: profile read at database_manager.py:104
    calls,            \* number of process_transaction calls begun
    pre,              \* history: per caller, the store when its call began
    failed_at,        \* history: per caller, the step that raised
    written,          \* history: per caller, the profile row it wrote
    processed,        \* history: per user, number and sum of amounts of completed calls,
                      \* whether all of them were whole numbers, and the device,
                      \* location and timestamp of the last one
    lost,             \* history: per user, a write overwrote a newer profile
    version,          \* history: per user, number of profile writes
    read_version,     \* history: per caller, version seen by its update read
    last_insert,      \* history: per transaction id, {payload of the latest insert}
    trace,            \* history: per caller, the steps its call has executed
    api,              \* the latest direct call on the store and what it returned
    loads             \* history: number of times the artifact was loaded

vars == <<transactions, user_profiles, bundle, pc, txn, user_profile, velocity,
          result, profile, calls, pre, failed_at, written, processed, lost,
          version, read_version, last_insert, trace, api, loads>>

None == "None"

\* ------------------------------------------------------------------------
\* Bounds
\* ------------------------------------------------------------------------
MaxCalls == 3
MaxConcurrentCalls == 2

Callers == {"c1", "c2"}
UserIds == {1001, 1002}
TxnIds == {"TXN-1", "TXN-2", "TXN-3"}
Amounts == {100, 200, 300}
Probabilities == {12000, 49996, 50000, 93210}
Thresholds == {50000}

\* ------------------------------------------------------------------------
\* Names of REAL values
\* ------------------------------------------------------------------------
Abs(x) == IF x < 0 THEN -x ELSE x
Max(a, b) == IF a >= b THEN a ELSE b

RECURSIVE GCD(_, _)
GCD(a, b) == IF b = 0 THEN a ELSE GCD(b, a % b)

\* the double nearest to n / d
Rat(n, d) ==
    LET g == GCD(Abs(n), d)
    IN  IF n = 0 THEN [n |-> 0, d |-> 1, ulps |-> 0]
        ELSE [n |-> n \div g, d |-> d \div g, ulps |-> 0]

Zero == [n |-> 0, d |-> 1, ulps |-> 0]

\* float(transaction["amount"]) for amounts of whole rupees
Rupees(amounts) == {Rat(a, 1) : a \in amounts}

\* the exact sum of the numbers two names are nearest to
Sum(a, b) == Rat(a.n * b.d + b.n * a.d, a.d * b.d)

\* ------------------------------------------------------------------------
\* Python floats: IEEE-754 binary64, every operation rounded to nearest even.
\* A positive double is [m, e, err]: m its 53 significand bits (most
\* significant first, m[1] = 1), e the exponent of m[1]; err is the sign of
\* (the double - the exact result) of the operation that produced it.  The
\* double 0.0 has m = <<>>.
\* ------------------------------------------------------------------------
Precision == 53

Sign(x) == IF x > 0 THEN 1 ELSE IF x < 0 THEN -1 ELSE 0

Zeros(count) == [i \in 1..count |-> 0]

RECURSIVE Binary(_)
\* the bits of a natural number, none for 0
Binary(k) == IF k = 0 THEN <<>> ELSE Binary(k \div 2) \o <<k % 2>>

\* without the leading zeros
Strip(bits) ==
    LET ones == {i \in 1..Len(bits) : bits[i] = 1}
    IN  IF ones = {} THEN <<>>
        ELSE SubSeq(bits, CHOOSE i \in ones : \A j \in ones : i <= j, Len(bits))

\* with leading zeros up to the given width
Pad(bits, width) == Zeros(width - Len(bits)) \o bits

\* the sign of a - b for two numbers of the same width
CompareBits(a, b) ==
    LET differ == {i \in 1..Len(a) : a[i] # b[i]}
    IN  IF differ = {} THEN 0
        ELSE LET first == CHOOSE i \in differ : \A j \in differ : i <= j
             IN  a[first] - b[first]

\* bits + 1 in the same width (all ones wraps to all zeros)
Increment(bits) ==
    LET zeros == {i \in 1..Len(bits) : bits[i] = 0}
        last == IF zeros = {} THEN 0
                ELSE CHOOSE i \in zeros : \A j \in zeros : i >= j
    IN  [i \in 1..Len(bits) |->
            IF i < last THEN bits[i] ELSE IF i = last THEN 1 ELSE 0]

\* the same bits in the opposite order
Reverse(bits) == [i \in 1..Len(bits) |-> bits[Len(bits) + 1 - i]]

RECURSIVE SubtractBits(_, _, _)
\* a - b - borrow in the width of a and b (least significant bit first),
\* with the borrow out of it: the low half hands its borrow to the high half
SubtractBits(a, b, borrow) ==
    IF Len(a) = 0 THEN [bits |-> <<>>, borrow |-> borrow]
    ELSE IF Len(a) = 1
    THEN LET t == a[1] - b[1] - borrow
         IN  [bits |-> <<IF t < 0 THEN t + 2 ELSE t>>,
              borrow |-> IF t < 0 THEN 1 ELSE 0]
    ELSE LET half == Len(a) \div 2
             low == SubtractBits(SubSeq(a, 1, half), SubSeq(b, 1, half),
                                 borrow)
             high == SubtractBits(SubSeq(a, half + 1, Len(a)),
                                  SubSeq(b, half + 1, Len(b)), low.borrow)
         IN  [bits |-> low.bits \o high.bits, borrow |-> high.borrow]

\* a - b for a >= b of the same width
Minus(a, b) == Reverse(SubtractBits(Reverse(a), Reverse(b), 0).bits)

RECURSIVE MultiplyBits(_, _, _)
\* bits * c + carry in the width of bits (least significant bit first),
\* with the carry out of it, for a small natural c
MultiplyBits(bits, c, carry) ==
    IF Len(bits) = 0 THEN [bits |-> <<>>, carry |-> carry]
    ELSE IF Len(bits) = 1
    THEN LET t == bits[1] * c + carry
         IN  [bits |-> <<t % 2>>, carry |-> t \div 2]
    ELSE LET half == Len(bits) \div 2
             low == MultiplyBits(SubSeq(bits, 1, half), c, carry)
             high == MultiplyBits(SubSeq(bits, half + 1, Len(bits)), c,
                                  low.carry)
         IN  [bits |-> low.bits \o high.bits, carry |-> high.carry]

\* the double nearest to the number whose bits (bits[1] = 1, of exponent e)
\* are followed by a rest that is below (-1), at (0) or above (1) half a unit
\* in the last place, exact telling that nothing follows
RoundNearest(bits, e, half, exact) ==
    LET up == half > 0 \/ (half = 0 /\ bits[Precision] = 1)
        err == IF exact THEN 0 ELSE IF up THEN 1 ELSE -1
    IN  IF ~up THEN [m |-> bits, e |-> e, err |-> err]
        ELSE IF \A i \in 1..Precision : bits[i] = 1
             THEN [m |-> <<1>> \o Zeros(Precision - 1), e |-> e + 1, err |-> err]
             ELSE [m |-> Increment(bits), e |-> e, err |-> err]

\* the double nearest to a number given by all its bits (bits[1] = 1)
RoundBits(bits, e) ==
    IF Len(bits) <= Precision
    THEN [m |-> bits \o Zeros(Precision - Len(bits)), e |-> e, err |-> 0]
    ELSE LET rest == SubSeq(bits, Precision + 1, Len(bits))
             more == \E i \in 2..Len(rest) : rest[i] = 1
         IN  RoundNearest(SubSeq(bits, 1, Precision), e,
                          IF rest[1] = 0 THEN -1 ELSE IF more THEN 1 ELSE 0,
                          rest[1] = 0 /\ ~more)

RECURSIVE Normalise(_, _, _)
\* num / den scaled by a power of two into [1, 2), e the exponent taken out
Normalise(num, den, e) ==
    IF num >= 2 * den THEN Normalise(num, 2 * den, e + 1)
    ELSE IF num < den THEN Normalise(2 * num, den, e - 1)
    ELSE [num |-> num, den |-> den, e |-> e]

RECURSIVE Quotient(_, _, _)
\* the first count bits of r / den for 0 <= r < 2 * den, and what is left;
\* the first half of the bits is produced before the second
Quotient(r, den, count) ==
    IF count = 0 THEN [bits |-> <<>>, rest |-> r]
    ELSE IF count = 1
    THEN LET bit == IF r >= den THEN 1 ELSE 0
         IN  [bits |-> <<bit>>, rest |-> 2 * (r - bit * den)]
    ELSE LET first == Quotient(r, den, count \div 2)
             second == Quotient(first.rest, den, count - count \div 2)
         IN  [bits |-> first.bits \o second.bits, rest |-> second.rest]

\* float(a) / float(b) for integers a > 0, b > 0: the double nearest to a / b
DivideIntegers(a, b) ==
    LET nz == Normalise(a, b, 0)
        q == Quotient(nz.num, nz.den, Precision)
    IN  RoundNearest(q.bits, nz.e, Sign(q.rest - nz.den), q.rest = 0)

\* x * c for a double x > 0 and a small integer c > 0
MultiplyDouble(x, c) ==
    LET scaled == MultiplyBits(Reverse(x.m), c, 0)
        product == Binary(scaled.carry) \o Reverse(scaled.bits)
    IN  RoundBits(product, x.e + Len(product) - Precision)

\* the bits of the doubles x > 0 and y > 0 over one unit in the last place,
\* the smaller of the two units, in one width
Aligned(x, y) ==
    LET low == IF x.e <= y.e THEN x.e ELSE y.e
        a == x.m \o Zeros(x.e - low)
        b == y.m \o Zeros(y.e - low)
        width == Max(Len(a), Len(b))
    IN  [a |-> Pad(a, width), b |-> Pad(b, width), e |-> low]

\* abs(x - y) for doubles x > 0 and y > 0; m = <<>> is 0.0
DistanceDoubles(x, y) ==
    LET al == Aligned(x, y)
        difference == IF CompareBits(al.a, al.b) >= 0
                      THEN Strip(Minus(al.a, al.b))
                      ELSE Strip(Minus(al.b, al.a))
    IN  IF difference = <<>> THEN [m |-> <<>>, e |-> 0, err |-> 0]
        ELSE RoundBits(difference, Len(difference) - Precision + al.e)

RECURSIVE LongDivision(_, _, _)
\* Quotient for a remainder and a divisor given by their bits (same width)
LongDivision(r, den, count) ==
    IF count = 0 THEN [bits |-> <<>>, rest |-> r]
    ELSE IF count = 1
    THEN LET bit == IF CompareBits(r, den) >= 0 THEN 1 ELSE 0
             left == IF bit = 1 THEN Minus(r, den) ELSE r
         IN  [bits |-> <<bit>>, rest |-> Tail(left) \o <<0>>]
    ELSE LET first == LongDivision(r, den, count \div 2)
             second == LongDivision(first.rest, den, count - count \div 2)
         IN  [bits |-> first.bits \o second.bits, rest |-> second.rest]

\* x / y for doubles x > 0, y > 0
DivideDoubles(x, y) ==
    LET width == Precision + 2
        den == Pad(y.m, width)
        less == CompareBits(x.m, y.m) < 0
        start == IF less THEN Pad(x.m \o <<0>>, width) ELSE Pad(x.m, width)
        q == LongDivision(start, den, Precision)
    IN  RoundNearest(q.bits, IF less THEN x.e - y.e - 1 ELSE x.e - y.e,
                     CompareBits(q.rest, den),
                     \A i \in 1..width : q.rest[i] = 0)

RECURSIVE DivideBits(_, _, _)
\* (rest * 2^Len(bits) + bits) / c for a small natural c > rest (most
\* significant bit first), with what is left: the high half hands its
\* remainder to the low half
DivideBits(bits, c, rest) ==
    IF Len(bits) = 0 THEN [bits |-> <<>>, rest |-> rest]
    ELSE IF Len(bits) = 1
    THEN LET t == 2 * rest + bits[1]
         IN  [bits |-> <<t \div c>>, rest |-> t % c]
    ELSE LET half == Len(bits) \div 2
             high == DivideBits(SubSeq(bits, 1, half), c, rest)
             low == DivideBits(SubSeq(bits, half + 1, Len(bits)), c, high.rest)
         IN  [bits |-> high.bits \o low.bits, rest |-> low.rest]

\* x / c for a double x > 0 and a small integer c > 0: the quotient to two
\* bits more than a double holds, and one bit telling whether more follows
DivideDouble(x, c) ==
    LET extra == Len(Binary(c)) + 2
        q == DivideBits(x.m \o Zeros(extra), c, 0)
        bits == Strip(q.bits) \o <<IF q.rest = 0 THEN 0 ELSE 1>>
    IN  RoundBits(bits, Len(bits) - 1 - Precision - extra + x.e)

RECURSIVE AddBits(_, _, _)
\* a + b + carry in the width of a and b (least significant bit first), with
\* the carry out of it: the low half hands its carry to the high half
AddBits(a, b, carry) ==
    IF Len(a) = 0 THEN [bits |-> <<>>, carry |-> carry]
    ELSE IF Len(a) = 1
    THEN LET t == a[1] + b[1] + carry
         IN  [bits |-> <<t % 2>>, carry |-> t \div 2]
    ELSE LET half == Len(a) \div 2
             low == AddBits(SubSeq(a, 1, half), SubSeq(b, 1, half), carry)
             high == AddBits(SubSeq(a, half + 1, Len(a)),
                             SubSeq(b, half + 1, Len(b)), low.carry)
         IN  [bits |-> low.bits \o high.bits, carry |-> high.carry]

\* x + y for doubles x > 0 and y > 0
AddDoubles(x, y) ==
    LET al == Aligned(x, y)
        added == AddBits(Reverse(al.a), Reverse(al.b), 0)
        sum == Strip(<<added.carry>> \o Reverse(added.bits))
    IN  RoundBits(sum, Len(sum) - Precision + al.e)

\* bits - 1 in the same width, for bits that are not all zero
Decrement(bits) ==
    LET last == CHOOSE i \in 1..Len(bits) :
                    bits[i] = 1 /\ \A j \in (i + 1)..Len(bits) : bits[j] = 0
    IN  [i \in 1..Len(bits) |->
            IF i < last THEN bits[i] ELSE IF i = last THEN 0 ELSE 1]

\* the next double above x
Successor(x) ==
    IF \A i \in 1..Precision : x.m[i] = 1
    THEN [m |-> <<1>> \o Zeros(Precision - 1), e |-> x.e + 1, err |-> 0]
    ELSE [m |-> Increment(x.m), e |-> x.e, err |-> 0]

\* the next double below x
Predecessor(x) ==
    IF x.m = <<1>> \o Zeros(Precision - 1)
    THEN [m |-> [i \in 1..Precision |-> 1], e |-> x.e - 1, err |-> 0]
    ELSE [m |-> Decrement(x.m), e |-> x.e, err |-> 0]

RECURSIVE Nudge(_, _)
\* the double ulps steps above x (below, when ulps is negative)
Nudge(x, ulps) ==
    IF ulps = 0 THEN x
    ELSE IF ulps > 0 THEN Nudge(Successor(x), ulps - 1)
    ELSE Nudge(Predecessor(x), ulps + 1)

RECURSIVE Value(_)
\* the natural number of a few bits
Value(bits) ==
    IF bits = <<>> THEN 0
    ELSE 2 * Value(SubSeq(bits, 1, Len(bits) - 1)) + bits[Len(bits)]

\* the number of steps from the double y up to the double x >= y, the two in
\* the same or in neighbouring binades
StepsUp(y, x) ==
    IF x.e = y.e THEN Value(Strip(Minus(x.m, y.m)))
    ELSE Value(Strip(Minus([i \in 1..Precision |-> 1], y.m))) + 1
         + Value(Strip(Minus(x.m, <<1>> \o Zeros(Precision - 1))))

\* the signed number of steps from the double y to the double x
Steps(y, x) ==
    IF x.e > y.e \/ (x.e = y.e /\ CompareBits(x.m, y.m) >= 0)
    THEN StepsUp(y, x) ELSE -StepsUp(x, y)

\* the double a name stands for (not 0.0)
Double(r) == Nudge(DivideIntegers(r.n, r.d), r.ulps)

\* the sign of x - a / b for a double x and integers a > 0, b > 0
CompareRational(x, a, b) ==
    LET nz == Normalise(a, b, 0)
        q == Quotient(nz.num, nz.den, Precision)
        c == CompareBits(x.m, q.bits)
    IN  IF x.m = <<>> THEN -1
        ELSE IF x.e # nz.e THEN Sign(x.e - nz.e)
        ELSE IF c # 0 THEN c
        ELSE IF q.rest = 0 THEN 0 ELSE -1

\* ------------------------------------------------------------------------
\* Timestamp texts
\* ------------------------------------------------------------------------
G == Cardinality(0..9)
Z == G + 1
Plus == -1
Eve == Plus - 1

Iso(h, m) == <<h \div 10, h % 10, m \div 10, m % 10, 0, 0>>
IsoMinutes(h, m) == <<h \div 10, h % 10, m \div 10, m % 10>>
IsoHour(h) == <<h \div 10, h % 10>>
IsoZulu(h, m) == Iso(h, m) \o <<Z>>

\* the number of days the date of a text lies before 2024-01-01
Days(s) == Cardinality({i \in 1..Len(s) : \A j \in 1..i : s[j] = Eve})

\* the characters after the 'T'
Clock(s) == SubSeq(s, Days(s) + 1, Len(s))

\* fromisoformat looks for the first 'Z' or sign after the date: the zone
\* starts there
ZoneAt(s) ==
    LET clock == Clock(s)
        marks == {i \in 1..Len(clock) : clock[i] \in {Z, Plus}}
    IN  IF marks = {} THEN Len(clock) + 1
        ELSE CHOOSE i \in marks : \A j \in marks : i <= j

ZonePart(s) == SubSeq(Clock(s), ZoneAt(s), Len(Clock(s)))

\* the time before the zone; in front of a zone Python 3.11 overlooks one
\* more character after a complete HH, HH:MM or HH:MM:SS
TimePart(s) ==
    LET raw == SubSeq(Clock(s), 1, ZoneAt(s) - 1)
    IN  IF /\ ZonePart(s) # <<>>
           /\ Len(raw) \in {3, 5, 7}
           /\ (raw[Len(raw)] = G \/ Len(raw) = 7)
        THEN SubSeq(raw, 1, Len(raw) - 1)
        ELSE raw

Digits(s) == \A i \in 1..Len(s) : s[i] \in 0..9

\* the k-th two-digit field of a run of digits, 0 when it is left out
Field(s, k) == IF Len(s) >= 2 * k THEN s[2 * k - 1] * 10 + s[2 * k] ELSE 0

SecondsOf(s) == (Field(s, 1) * 60 + Field(s, 2)) * 60 + Field(s, 3)

\* datetime.fromisoformat accepts HH, HH:MM and HH:MM:SS, alone or followed
\* by Z or by an offset +HH, +HH:MM or +HH:MM:SS of less than a day (the
\* minutes and seconds of an offset are not range-checked)
Parsable(s) ==
    LET time == TimePart(s)
        zone == ZonePart(s)
    IN  /\ Len(time) \in {2, 4, 6}
        /\ Digits(time)
        /\ Field(time, 1) < 24
        /\ Field(time, 2) < 60
        /\ Field(time, 3) < 60
        /\ \/ zone = <<>>
           \/ zone = <<Z>>
           \/ /\ Head(zone) = Plus
              /\ Len(zone) \in {3, 5, 7}
              /\ Digits(Tail(zone))
              /\ SecondsOf(Tail(zone)) < 24 * 3600

\* the datetime of a parsable text: its wall-clock seconds after
\* 2024-01-01T00:00:00 (the minutes and seconds left out are zero) and its
\* zone: naive, or aware with an offset in seconds (Z is offset 0)
fromisoformat(s) ==
    LET zone == ZonePart(s)
    IN  [seconds |-> SecondsOf(TimePart(s)) - Days(s) * 24 * 3600,
         aware |-> zone # <<>>,
         utcoffset |-> IF Len(zone) > 1 THEN SecondsOf(Tail(zone)) ELSE 0]

\* datetime - timedelta(hours=hours): the wall clock moves, the zone stays
MinusHours(t, hours) == [t EXCEPT !.seconds = @ - hours * 3600]

TwoDigits(k) == <<k \div 10, k % 10>>

\* datetime.isoformat: always the HH:MM:SS form; an aware datetime is
\* followed by its offset as +HH:MM, or +HH:MM:SS when it has seconds
isoformat(t) ==
    LET days == IF t.seconds >= 0 THEN 0 ELSE (24 * 3600 - 1 - t.seconds) \div (24 * 3600)
        clock == t.seconds + days * 24 * 3600
        offset == t.utcoffset
    IN  [i \in 1..days |-> Eve]
            \o TwoDigits(clock \div 3600) \o TwoDigits((clock % 3600) \div 60)
            \o TwoDigits(clock % 60)
            \o (IF ~t.aware THEN <<>>
                ELSE <<Plus>> \o TwoDigits(offset \div 3600)
                         \o TwoDigits((offset % 3600) \div 60)
                         \o (IF offset % 60 = 0 THEN <<>> ELSE TwoDigits(offset % 60)))

\* lexicographic order of the characters after the date
RECURSIVE CharsGeq(_, _)
CharsGeq(a, b) ==
    IF b = <<>> THEN TRUE
    ELSE IF a = <<>> THEN FALSE
    ELSE IF Head(a) # Head(b) THEN Head(a) > Head(b)
    ELSE CharsGeq(Tail(a), Tail(b))

\* SQLite's comparison of two TEXT values (BINARY collation): a >= b.  ""
\* is the least text; an earlier date sorts first
TextGeq(a, b) ==
    IF b = <<>> THEN TRUE
    ELSE IF a = <<>> THEN FALSE
    ELSE IF Days(a) # Days(b) THEN Days(a) < Days(b)
    ELSE CharsGeq(Clock(a), Clock(b))

\* ------------------------------------------------------------------------
\* database_manager.py
\* ------------------------------------------------------------------------
window_hours == 1

\* mutant: the defaults of a user who has already transacted once
DefaultProfileCounted(user_id) ==
    [user_id |-> user_id, avg_amount |-> Zero, last_device |-> "",
     usual_location |-> "", transaction_count |-> 1,
     last_transaction_time |-> <<>>]

\* the dict get_user_profile returns when the user has no row
DefaultProfile(user_id) ==
    [user_id |-> user_id, avg_amount |-> Zero, last_device |-> "",
     usual_location |-> "", transaction_count |-> 0,
     last_transaction_time |-> <<>>]

\* mutant: the statements executed stay in the table when the block raises
ConnectionWithoutRollback(before, after, ok) == after

\* _get_connection: the table after the with-block, which commits the
\* statements executed when the block ends normally and rolls them back when
\* an exception leaves it
Connection(before, after, ok) == IF ok THEN after ELSE before

\* SELECT * FROM user_profiles WHERE user_id = ?, or the defaults
get_user_profile(rows, user_id) ==
    IF \E r \in rows : r.user_id = user_id
    THEN CHOOSE r \in rows : r.user_id = user_id
    ELSE DefaultProfile(user_id)

\* mutant: the mean of the old average and the new amount
RunningAverageUnweighted(p, amount) ==
    Rat(p.avg_amount.n * amount.d + amount.n * p.avg_amount.d,
        p.avg_amount.d * amount.d * 2)

\* new_avg = ((avg_amount * transaction_count) + amount) / count, every
\* operation rounded to a double.  An average and an amount that are integers
\* make the product and the sum exact, and the quotient is the double nearest
\* to the exact mean; any other pair is multiplied, added and divided as
\* doubles, and the result is named by its distance from the double of the
\* exact mean
RunningAverage(p, amount) ==
    LET avg_amount == p.avg_amount
        transaction_count == p.transaction_count
        count == transaction_count + 1
        mean == Rat(avg_amount.n * transaction_count * amount.d
                        + amount.n * avg_amount.d,
                    avg_amount.d * amount.d * count)
        total == IF avg_amount.n = 0 \/ transaction_count = 0
                 THEN Double(amount)
                 ELSE AddDoubles(MultiplyDouble(Double(avg_amount),
                                                transaction_count),
                                 Double(amount))
        new_avg == DivideDouble(total, count)
    IN  IF avg_amount.d = 1 /\ avg_amount.ulps = 0 /\ amount.d = 1 THEN mean
        ELSE [mean EXCEPT !.ulps = Steps(DivideIntegers(mean.n, mean.d), new_avg)]

\* mutant: last_transaction_time never moves backwards
ProfileRowKeepingLatest(p, user_id, amount, device_id, location, timestamp) ==
    [user_id |-> user_id, avg_amount |-> RunningAverage(p, amount),
     last_device |-> device_id, usual_location |-> location,
     transaction_count |-> p.transaction_count + 1,
     last_transaction_time |-> IF TextGeq(timestamp, p.last_transaction_time)
                               THEN timestamp ELSE p.last_transaction_time]

\* the row update_user_profile writes, from the profile p it read
ProfileRow(p, user_id, amount, device_id, location, timestamp) ==
    [user_id |-> user_id, avg_amount |-> RunningAverage(p, amount),
     last_device |-> device_id, usual_location |-> location,
     transaction_count |-> p.transaction_count + 1,
     last_transaction_time |-> timestamp]

\* INSERT INTO user_profiles ... ON CONFLICT(user_id) DO UPDATE SET ...
Upsert(rows, row) == {r \in rows : r.user_id # row.user_id} \cup {row}

\* mutant: a plain INSERT into a table without the key
InsertWithoutReplace(rows, row) == rows \cup {row}

\* INSERT OR REPLACE INTO transactions (PRIMARY KEY transaction_id)
insert_transaction(rows, row) ==
    {r \in rows : r.transaction_id # row.transaction_id} \cup {row}

\* mutant: no fallback, the unparsable text itself bounds the window
WindowStartWithoutFallback(current_time) ==
    IF Parsable(current_time)
    THEN isoformat(MinusHours(fromisoformat(current_time), window_hours))
    ELSE current_time

\* window_start of get_transaction_velocity; "" when current_time is unparsable
WindowStart(current_time) ==
    IF Parsable(current_time)
    THEN isoformat(MinusHours(fromisoformat(current_time), window_hours))
    ELSE <<>>

\* SELECT COUNT(*) FROM transactions WHERE user_id = ? AND timestamp >= ?
get_transaction_velocity(rows, user_id, current_time) ==
    LET window_start == WindowStart(current_time)
    IN  Cardinality({r \in rows : /\ r.user_id = user_id
                                  /\ TextGeq(r.timestamp, window_start)})

\* ------------------------------------------------------------------------
\* data_processing.py
\* ------------------------------------------------------------------------
LOCATIONS == <<"Bangalore", "Delhi", "Kolkata", "Lucknow", "Mumbai">>
DEVICES == <<"Android_A", "Android_B", "iPhone_X", "iPhone_Y">>
MERCHANTS == <<"amazon@upi", "flipkart@upi", "gpay@upi", "paytm@upi", "phonepe@upi">>

FEATURE_COLUMNS ==
    <<"amount", "hour", "user_id",
      "avg_user_amount", "amount_deviation", "is_night",
      "is_new_device", "location_change_flag", "is_new_merchant", "transaction_velocity",
      "location_Bangalore", "location_Delhi", "location_Kolkata", "location_Lucknow",
      "location_Mumbai",
      "device_id_Android_A", "device_id_Android_B", "device_id_iPhone_X",
      "device_id_iPhone_Y",
      "merchant_id_amazon@upi", "merchant_id_flipkart@upi",
      "merchant_id_gpay@upi", "merchant_id_paytm@upi", "merchant_id_phonepe@upi">>

RECURSIVE ScaledQuotient(_, _, _)
\* quotient and remainder of a * scale by b for a power of ten scale, one
\* decimal digit at a time
ScaledQuotient(a, b, scale) ==
    IF scale = 1 THEN [q |-> a \div b, r |-> a % b]
    ELSE LET s == ScaledQuotient(a, b, scale \div 10)
         IN  [q |-> s.q * 10 + (s.r * 10) \div b, r |-> (s.r * 10) % b]

\* round(x, digits) as an integer in units of 10^-digits (scale = 10^digits)
\* for a double x that is the rounded result of a computation whose exact
\* value is a / b (a >= 0, b > 0): a / b rounded, and when a / b lies halfway
\* between two decimals the side on which x lies (direction: the sign of
\* x - a / b); x exactly halfway goes to the even neighbour
RoundHalf(a, b, scale, direction) ==
    LET s == ScaledQuotient(a, b, scale)
    IN  IF 2 * s.r > b THEN s.q + 1
        ELSE IF 2 * s.r < b THEN s.q
        ELSE IF direction > 0 THEN s.q + 1
        ELSE IF direction < 0 THEN s.q
        ELSE IF s.q % 2 = 1 THEN s.q + 1 ELSE s.q

\* round(x, digits) for the double x nearest to a / b
RoundScaled(a, b, scale) == RoundHalf(a, b, scale, DivideIntegers(a, b).err)

\* the sign of (the double the code computes - the exact deviation):
\* abs(amount - avg_amount) / max(avg_amount, 1.0) on the doubles amount and
\* avg_amount
DeviationError(amount, avg_amount) ==
    LET average == Double(avg_amount)
        distance == DistanceDoubles(Double(amount), average)
        deviation == IF average.e >= 0 THEN DivideDoubles(distance, average)
                     ELSE distance
    IN  CompareRational(deviation,
                        Abs(amount.n * avg_amount.d - avg_amount.n * amount.d),
                        amount.d * Max(avg_amount.n, avg_amount.d))

\* the sign of (p * 100 as format(p, ".1%") computes it - the exact percentage)
\* for the double p nearest to fraud_probability * 1e-5
PercentError(fraud_probability) ==
    CompareRational(MultiplyDouble(DivideIntegers(fraud_probability, 100000), 100),
                    fraud_probability, 1000)

\* mutant: the deviation without the "if avg_amount > 0" guard
AmountDeviationUnguarded(amount, avg_amount) ==
    RoundHalf(Abs(amount.n * avg_amount.d - avg_amount.n * amount.d),
              amount.d * Max(avg_amount.n, avg_amount.d), 10000,
              DeviationError(amount, avg_amount))

\* mutant: the divisor is avg_amount itself
AmountDeviationByAverage(amount, avg_amount) ==
    IF avg_amount.n > 0
    THEN RoundHalf(Abs(amount.n * avg_amount.d - avg_amount.n * amount.d),
                   amount.d * avg_amount.n, 10000,
                   DeviationError(amount, avg_amount))
    ELSE 0

\* abs(amount - avg_amount) / max(avg_amount, 1.0) if avg_amount > 0 else 0.0,
\* then round(., 4): the result is in units of 1e-4
AmountDeviation(amount, avg_amount) ==
    IF avg_amount.n > 0
    THEN RoundHalf(Abs(amount.n * avg_amount.d - avg_amount.n * amount.d),
                   amount.d * Max(avg_amount.n, avg_amount.d), 10000,
                   DeviationError(amount, avg_amount))
    ELSE 0

\* mutant: the night ends before hour 6
IsNightExclusive(hour) == IF hour >= 0 /\ hour < 6 THEN 1 ELSE 0

\* 1 if hour >= 0 and hour <= 6 else 0
IsNight(hour) == IF hour >= 0 /\ hour <= 6 THEN 1 ELSE 0

\* mutant: a profile without a device counts as a different device
IsNewDeviceIgnoringEmpty(last_device, device_id) ==
    IF device_id # last_device THEN 1 ELSE 0

IsNewDevice(last_device, device_id) ==
    IF last_device # "" /\ device_id # last_device THEN 1 ELSE 0

LocationChangeFlag(usual_location, location) ==
    IF usual_location # "" /\ location # usual_location THEN 1 ELSE 0

IsNewMerchant == 0

\* mutant: the keys are the bare categories
OneHotWithoutPrefix(prefix, cats, value) ==
    [i \in 1..Len(cats) |-> <<cats[i], IF value = cats[i] THEN 1 ELSE 0>>]

\* the one-hot comprehension {prefix + c: 1 if value == c else 0 for c in cats},
\* in the order of cats
OneHot(prefix, cats, value) ==
    [i \in 1..Len(cats) |-> <<prefix \o cats[i], IF value = cats[i] THEN 1 ELSE 0>>]

\* mutant: a merchant outside MERCHANTS raises is_new_merchant
ComputeWithMerchantFlag(transaction, p, transaction_velocity) ==
    <<  <<"amount", transaction.amount>>,
        <<"hour", transaction.hour>>,
        <<"user_id", transaction.user_id>>,
        <<"avg_user_amount", p.avg_amount>>,
        <<"amount_deviation", AmountDeviation(transaction.amount, p.avg_amount)>>,
        <<"is_night", IsNight(transaction.hour)>>,
        <<"is_new_device", IsNewDevice(p.last_device, transaction.device_id)>>,
        <<"location_change_flag",
          LocationChangeFlag(p.usual_location, transaction.location)>>,
        <<"is_new_merchant",
          IF \A i \in 1..Len(MERCHANTS) : MERCHANTS[i] # transaction.merchant_id
          THEN 1 ELSE 0>>,
        <<"transaction_velocity", Max(transaction_velocity, 1)>>  >>
    \o OneHot("location_", LOCATIONS, transaction.location)
    \o OneHot("device_id_", DEVICES, transaction.device_id)
    \o OneHot("merchant_id_", MERCHANTS, transaction.merchant_id)

\* the feature dict, as the sequence of its (key, value) items in insertion order
compute_behavioral_features(transaction, p, transaction_velocity) ==
    <<  <<"amount", transaction.amount>>,
        <<"hour", transaction.hour>>,
        <<"user_id", transaction.user_id>>,
        <<"avg_user_amount", p.avg_amount>>,
        <<"amount_deviation", AmountDeviation(transaction.amount, p.avg_amount)>>,
        <<"is_night", IsNight(transaction.hour)>>,
        <<"is_new_device", IsNewDevice(p.last_device, transaction.device_id)>>,
        <<"location_change_flag",
          LocationChangeFlag(p.usual_location, transaction.location)>>,
        <<"is_new_merchant", IsNewMerchant>>,
        <<"transaction_velocity", Max(transaction_velocity, 1)>>  >>
    \o OneHot("location_", LOCATIONS, transaction.location)
    \o OneHot("device_id_", DEVICES, transaction.device_id)
    \o OneHot("merchant_id_", MERCHANTS, transaction.merchant_id)

Keys(features) == {features[i][1] : i \in 1..Len(features)}

\* features.get(name, default)
Get(features, name, default) ==
    IF name \in Keys(features)
    THEN features[CHOOSE i \in 1..Len(features) : features[i][1] = name][2]
    ELSE default

\* the single row of the DataFrame, as the sequence of its (column, value)
\* cells: a column missing from the dict is added with 0, then
\* df[FEATURE_COLUMNS] selects the schema's columns in the schema's order
build_feature_dataframe(features) ==
    [i \in 1..Len(FEATURE_COLUMNS) |->
        <<FEATURE_COLUMNS[i], Get(features, FEATURE_COLUMNS[i], 0)>>]

\* mutant: the time line is emitted before the device line
GenerateExplanationTimeFirst(features, fraud_probability, threshold) ==
    LET header == IF fraud_probability >= threshold
                  THEN << <<"HIGH RISK TRANSACTION DETECTED", 0>> >>
                  ELSE << <<"Transaction appears normal", 0>> >>
        prob == << <<"Fraud Probability", RoundHalf(fraud_probability, 100, 1,
                                             PercentError(fraud_probability))>> >>
        dev == IF Get(features, "amount_deviation", 0) > 15000
               THEN << <<"Unusual transaction amount",
                         RoundScaled(Get(features, "amount_deviation", 0), 10000, 10)>> >>
               ELSE <<>>
        device == IF Get(features, "is_new_device", 0) = 1
                  THEN << <<"New device detected", 0>> >> ELSE <<>>
        night == IF Get(features, "is_night", 0) = 1
                 THEN << <<"Unusual transaction time", Get(features, "hour", -1)>> >>
                 ELSE <<>>
        loc == IF Get(features, "location_change_flag", 0) = 1
               THEN << <<"Location change detected", 0>> >> ELSE <<>>
        merchant == IF Get(features, "is_new_merchant", 0) = 1
                    THEN << <<"New merchant detected", 0>> >> ELSE <<>>
        vel == IF Get(features, "transaction_velocity", 0) > 5
               THEN << <<"Rapid sequential transactions",
                         Get(features, "transaction_velocity", 0)>> >>
               ELSE <<>>
        explanations == header \o prob \o dev \o night \o device \o loc \o merchant \o vel
    IN  IF Len(explanations) = 2
        THEN explanations \o << <<"No specific behavioral anomalies detected", 0>> >>
        ELSE explanations

\* the explanation, as the sequence of its lines; a line is <<text, argument>>
generate_explanation(features, fraud_probability, threshold) ==
    LET header == IF fraud_probability >= threshold
                  THEN << <<"HIGH RISK TRANSACTION DETECTED", 0>> >>
                  ELSE << <<"Transaction appears normal", 0>> >>
        prob == << <<"Fraud Probability", RoundHalf(fraud_probability, 100, 1,
                                             PercentError(fraud_probability))>> >>
        dev == IF Get(features, "amount_deviation", 0) > 15000
               THEN << <<"Unusual transaction amount",
                         RoundScaled(Get(features, "amount_deviation", 0), 10000, 10)>> >>
               ELSE <<>>
        device == IF Get(features, "is_new_device", 0) = 1
                  THEN << <<"New device detected", 0>> >> ELSE <<>>
        night == IF Get(features, "is_night", 0) = 1
                 THEN << <<"Unusual transaction time", Get(features, "hour", -1)>> >>
                 ELSE <<>>
        loc == IF Get(features, "location_change_flag", 0) = 1
               THEN << <<"Location change detected", 0>> >> ELSE <<>>
        merchant == IF Get(features, "is_new_merchant", 0) = 1
                    THEN << <<"New merchant detected", 0>> >> ELSE <<>>
        vel == IF Get(features, "transaction_velocity", 0) > 5
               THEN << <<"Rapid sequential transactions",
                         Get(features, "transaction_velocity", 0)>> >>
               ELSE <<>>
        explanations == header \o prob \o dev \o device \o night \o loc \o merchant \o vel
    IN  IF Len(explanations) = 2
        THEN explanations \o << <<"No specific behavioral anomalies detected", 0>> >>
        ELSE explanations

\* ------------------------------------------------------------------------
\* fraud_prediction.py
\* ------------------------------------------------------------------------
\* mutant: a probability equal to the threshold is low risk
RiskLevelExclusive(fraud_probability, threshold) ==
    IF fraud_probability > threshold THEN "HIGH RISK" ELSE "LOW RISK"

\* "HIGH RISK" if fraud_probability >= threshold else "LOW RISK"
RiskLevel(fraud_probability, threshold) ==
    IF fraud_probability >= threshold THEN "HIGH RISK" ELSE "LOW RISK"

\* predict_fraud once the classifier has returned proba[1] = fraud_probability
\* (units of 1e-5) for the aligned, scaled row
predict_fraud(transaction, p, transaction_velocity, fraud_probability, threshold) ==
    LET features == compute_behavioral_features(transaction, p, transaction_velocity)
    IN  [fraud_probability |-> RoundScaled(fraud_probability, 100000, 10000) * 10,
         risk_level |-> RiskLevel(fraud_probability, threshold),
         explanation |-> generate_explanation(features, fraud_probability, threshold),
         features |-> features]

\* ------------------------------------------------------------------------
\* simulator.py: process_transaction, one action per statement that touches
\* the store or the classifier
\* ------------------------------------------------------------------------
Transaction(ids, users, amounts, hours, devices, locations, merchants, times) ==
    [transaction_id : ids, user_id : users, amount : amounts, hour : hours,
     device_id : devices, location : locations, merchant_id : merchants,
     timestamp : times]

\* full_record = {**transaction, fraud_probability, risk_level, explanation}
FullRecord(transaction, res) ==
    [transaction_id |-> transaction.transaction_id,
     user_id |-> transaction.user_id,
     amount |-> transaction.amount,
     hour |-> transaction.hour,
     device_id |-> transaction.device_id,
     location |-> transaction.location,
     merchant_id |-> transaction.merchant_id,
     fraud_probability |-> res.fraud_probability,
     risk_level |-> res.risk_level,
     explanation |-> res.explanation,
     timestamp |-> transaction.timestamp]

\* mutant: the profile is updated before the record is inserted
NextStepProfileFirst(step) ==
    CASE step = "get_user_profile" -> "get_transaction_velocity"
      [] step = "get_transaction_velocity" -> "predict_fraud"
      [] step = "predict_fraud" -> "update_read"
      [] step = "update_read" -> "update_write"
      [] step = "update_write" -> "insert_transaction"
      [] step = "insert_transaction" -> "return"

\* mutant: the profile is updated before the prediction
NextStepUpdateBeforePredict(step) ==
    CASE step = "get_user_profile" -> "get_transaction_velocity"
      [] step = "get_transaction_velocity" -> "update_read"
      [] step = "update_read" -> "update_write"
      [] step = "update_write" -> "predict_fraud"
      [] step = "predict_fraud" -> "insert_transaction"
      [] step = "insert_transaction" -> "return"

\* the statement that follows each statement of process_transaction
\* (update_user_profile is its read followed by its write)
NextStep(step) ==
    CASE step = "get_user_profile" -> "get_transaction_velocity"
      [] step = "get_transaction_velocity" -> "predict_fraud"
      [] step = "predict_fraud" -> "insert_transaction"
      [] step = "insert_transaction" -> "update_read"
      [] step = "update_read" -> "update_write"
      [] step = "update_write" -> "return"

\* mutant: the row is computed from the profile read by process_transaction
ProfileFromFirstRead(c) == user_profile[c]

\* mutant: the row is computed from the stored profile at the time of the write
ProfileReadAtWrite(c) == get_user_profile(user_profiles, txn[c].user_id)

\* the profile from which update_user_profile computes the row it writes
ProfileForWrite(c) == profile[c]

Advance(c) ==
    /\ pc' = [pc EXCEPT ![c] = NextStep(pc[c])]
    /\ trace' = [trace EXCEPT ![c] = Append(trace[c], pc[c])]

Raise(c) ==
    /\ pc' = [pc EXCEPT ![c] = "raised"]
    /\ failed_at' = [failed_at EXCEPT ![c] = pc[c]]

Store == [transactions |-> transactions, user_profiles |-> user_profiles]

\* a caller enters process_transaction(db, t)
Begin(c, inputs, max) ==
    /\ pc[c] = "idle"
    /\ calls < max
    /\ \E t \in inputs : txn' = [txn EXCEPT ![c] = t]
    /\ calls' = calls + 1
    /\ pc' = [pc EXCEPT ![c] = "get_user_profile"]
    /\ pre' = [pre EXCEPT ![c] = Store]
    /\ UNCHANGED <<transactions, user_profiles, bundle, user_profile, velocity,
                   result, profile, failed_at, written, processed, lost, version,
                   read_version, last_insert, trace, api, loads>>

\* user_profile = db.get_user_profile(user_id)
ReadProfile(c) ==
    /\ pc[c] = "get_user_profile"
    /\ user_profile' = [user_profile EXCEPT
                           ![c] = get_user_profile(user_profiles, txn[c].user_id)]
    /\ Advance(c)
    /\ UNCHANGED <<transactions, user_profiles, bundle, txn, velocity, result,
                   profile, calls, pre, failed_at, written, processed, lost,
                   version, read_version, last_insert, api, loads>>

\* db.get_user_profile raises (storage error): nothing was written
ReadProfileRaises(c) ==
    /\ pc[c] = "get_user_profile"
    /\ Raise(c)
    /\ UNCHANGED <<transactions, user_profiles, bundle, txn, user_profile,
                   velocity, result, profile, calls, pre, written, processed,
                   lost, version, read_version, last_insert, trace, api, loads>>

\* velocity = db.get_transaction_velocity(user_id, transaction["timestamp"])
ReadVelocity(c) ==
    /\ pc[c] = "get_transaction_velocity"
    /\ velocity' = [velocity EXCEPT
                       ![c] = get_transaction_velocity(transactions, txn[c].user_id,
                                                       txn[c].timestamp)]
    /\ Advance(c)
    /\ UNCHANGED <<transactions, user_profiles, bundle, txn, user_profile, result,
                   profile, calls, pre, failed_at, written, processed, lost,
                   version, read_version, last_insert, api, loads>>

\* db.get_transaction_velocity raises (storage error): nothing was written
ReadVelocityRaises(c) ==
    /\ pc[c] = "get_transaction_velocity"
    /\ Raise(c)
    /\ UNCHANGED <<transactions, user_profiles, bundle, txn, user_profile,
                   velocity, result, profile, calls, pre, written, processed,
                   lost, version, read_version, last_insert, trace, api, loads>>

\* _load_model: the bundle held, or the artifact loaded on first use
load_model(threshold) ==
    IF ~bundle.loaded THEN [loaded |-> TRUE, threshold |-> threshold] ELSE bundle

\* result = predict_fraud(transaction, user_profile, velocity) of a caller that
\* finds the bundle held: _load_model returns it and the classifier returns
\* some probability
Predict(c, probabilities) ==
    /\ pc[c] = "predict_fraud"
    /\ bundle.loaded
    /\ \E p \in probabilities :
          result' = [result EXCEPT
                        ![c] = predict_fraud(txn[c], user_profile[c], velocity[c],
                                             p, bundle.threshold)]
    /\ Advance(c)
    /\ UNCHANGED <<transactions, user_profiles, bundle, txn, user_profile,
                   velocity, profile, calls, pre, failed_at, written, processed,
                   lost, version, read_version, last_insert, api, loads>>

\* predict_fraud of a caller that finds no bundle held: _load_model has tested
\* `_bundle is None` and goes on to load the artifact; other callers run
\* before the assignment
PredictTestsBundle(c) ==
    /\ pc[c] = "predict_fraud"
    /\ ~bundle.loaded
    /\ pc' = [pc EXCEPT ![c] = "joblib.load"]
    /\ UNCHANGED <<transactions, user_profiles, bundle, txn, user_profile,
                   velocity, result, profile, calls, pre, failed_at, written,
                   processed, lost, version, read_version, last_insert, trace,
                   api, loads>>

\* _bundle = joblib.load(MODEL_PATH), whatever another caller has assigned in
\* between, and the rest of predict_fraud with the bundle loaded
PredictLoads(c, probabilities) ==
    /\ pc[c] = "joblib.load"
    /\ \E threshold \in Thresholds, p \in probabilities :
          /\ bundle' = [loaded |-> TRUE, threshold |-> threshold]
          /\ result' = [result EXCEPT
                           ![c] = predict_fraud(txn[c], user_profile[c], velocity[c],
                                                p, threshold)]
    /\ loads' = loads + 1
    /\ pc' = [pc EXCEPT ![c] = NextStep("predict_fraud")]
    /\ trace' = [trace EXCEPT ![c] = Append(trace[c], "predict_fraud")]
    /\ UNCHANGED <<transactions, user_profiles, txn, user_profile, velocity,
                   profile, calls, pre, failed_at, written, processed, lost,
                   version, read_version, last_insert, api>>

\* predict_fraud raises with the bundle as it is: the artifact is missing
\* (FileNotFoundError, nothing is loaded), or the bundle is held and the scaler
\* or the classifier raises
PredictRaises(c) ==
    /\ pc[c] = "predict_fraud"
    /\ Raise(c)
    /\ UNCHANGED <<transactions, user_profiles, bundle, txn, user_profile,
                   velocity, result, profile, calls, pre, written, processed,
                   lost, version, read_version, last_insert, trace, api, loads>>

\* joblib.load raises on an unreadable artifact: nothing is loaded
PredictLoadRaises(c) ==
    /\ pc[c] = "joblib.load"
    /\ pc' = [pc EXCEPT ![c] = "raised"]
    /\ failed_at' = [failed_at EXCEPT ![c] = "predict_fraud"]
    /\ UNCHANGED <<transactions, user_profiles, bundle, txn, user_profile,
                   velocity, result, profile, calls, pre, written, processed,
                   lost, version, read_version, last_insert, trace, api, loads>>

\* the artifact is loaded and then the scaler or the classifier raises: the
\* bundle stays loaded
PredictRaisesLoaded(c) ==
    /\ pc[c] = "joblib.load"
    /\ \E threshold \in Thresholds :
          bundle' = [loaded |-> TRUE, threshold |-> threshold]
    /\ loads' = loads + 1
    /\ pc' = [pc EXCEPT ![c] = "raised"]
    /\ failed_at' = [failed_at EXCEPT ![c] = "predict_fraud"]
    /\ UNCHANGED <<transactions, user_profiles, txn, user_profile,
                   velocity, result, profile, calls, pre, written, processed,
                   lost, version, read_version, last_insert, trace, api>>

\* db.insert_transaction(full_record), committed when the connection closes
Insert(c) ==
    /\ pc[c] = "insert_transaction"
    /\ transactions' = Connection(transactions,
                                  insert_transaction(transactions,
                                                     FullRecord(txn[c], result[c])),
                                  TRUE)
    /\ last_insert' = [last_insert EXCEPT
                          ![txn[c].transaction_id] = {FullRecord(txn[c], result[c])}]
    /\ Advance(c)
    /\ UNCHANGED <<user_profiles, bundle, txn, user_profile, velocity, result,
                   profile, calls, pre, failed_at, written, processed, lost,
                   version, read_version, api, loads>>

\* db.insert_transaction raises (storage error): the insert is rolled back
InsertRaises(c) ==
    /\ pc[c] = "insert_transaction"
    /\ transactions' = Connection(transactions,
                                  insert_transaction(transactions,
                                                     FullRecord(txn[c], result[c])),
                                  FALSE)
    /\ Raise(c)
    /\ UNCHANGED <<user_profiles, bundle, txn, user_profile,
                   velocity, result, profile, calls, pre, written, processed,
                   lost, version, read_version, last_insert, trace, api, loads>>

\* update_user_profile: profile = self.get_user_profile(user_id), on a
\* connection of its own
UpdateRead(c) ==
    /\ pc[c] = "update_read"
    /\ profile' = [profile EXCEPT
                      ![c] = get_user_profile(user_profiles, txn[c].user_id)]
    /\ read_version' = [read_version EXCEPT ![c] = version[txn[c].user_id]]
    /\ Advance(c)
    /\ UNCHANGED <<transactions, user_profiles, bundle, txn, user_profile,
                   velocity, result, calls, pre, failed_at, written, processed,
                   lost, version, last_insert, api, loads>>

\* update_user_profile: the upsert of the computed row, then commit
UpdateWrite(c) ==
    /\ pc[c] = "update_write"
    /\ LET u == txn[c].user_id
           row == ProfileRow(ProfileForWrite(c), u, txn[c].amount, txn[c].device_id,
                             txn[c].location, txn[c].timestamp)
       IN  /\ user_profiles' = Connection(user_profiles, Upsert(user_profiles, row), TRUE)
           /\ written' = [written EXCEPT ![c] = row]
           /\ processed' = [processed EXCEPT
                              ![u] = [count |-> processed[u].count + 1,
                                      whole |-> processed[u].whole
                                                    /\ txn[c].amount.d = 1,
                                      sum |-> Sum(processed[u].sum, txn[c].amount),
                                      last |-> <<txn[c].device_id, txn[c].location,
                                                 txn[c].timestamp>>]]
           /\ version' = [version EXCEPT ![u] = version[u] + 1]
           /\ lost' = [lost EXCEPT ![u] = lost[u] \/ read_version[c] # version[u]]
    /\ Advance(c)
    /\ UNCHANGED <<transactions, bundle, txn, user_profile, velocity, result,
                   profile, calls, pre, failed_at, read_version, last_insert, api, loads>>

\* the process dies, or get_user_profile raises, after the record was stored
\* and before update_user_profile executed its upsert
UpdateReadRaises(c) ==
    /\ pc[c] = "update_read"
    /\ Raise(c)
    /\ UNCHANGED <<transactions, user_profiles, bundle, txn, user_profile,
                   velocity, result, profile, calls, pre, written, processed,
                   lost, version, read_version, last_insert, trace, api, loads>>

\* update_user_profile raises in its upsert or its commit: rolled back
UpdateWriteRaises(c) ==
    /\ pc[c] = "update_write"
    /\ LET u == txn[c].user_id
           row == ProfileRow(ProfileForWrite(c), u, txn[c].amount, txn[c].device_id,
                             txn[c].location, txn[c].timestamp)
       IN  user_profiles' = Connection(user_profiles, Upsert(user_profiles, row), FALSE)
    /\ Raise(c)
    /\ UNCHANGED <<transactions, bundle, txn, user_profile, velocity, result,
                   profile, calls, pre, written, processed, lost, version,
                   read_version, last_insert, trace, api, loads>>

NoCall == [c \in Callers |-> None]

\* return full_record, or the exception reaches the caller
Return(c) ==
    /\ pc[c] \in {"return", "raised"}
    /\ pc' = [pc EXCEPT ![c] = "idle"]
    /\ txn' = [txn EXCEPT ![c] = None]
    /\ user_profile' = [user_profile EXCEPT ![c] = None]
    /\ velocity' = [velocity EXCEPT ![c] = None]
    /\ result' = [result EXCEPT ![c] = None]
    /\ profile' = [profile EXCEPT ![c] = None]
    /\ pre' = [pre EXCEPT ![c] = None]
    /\ failed_at' = [failed_at EXCEPT ![c] = None]
    /\ written' = [written EXCEPT ![c] = None]
    /\ read_version' = [read_version EXCEPT ![c] = None]
    /\ trace' = [trace EXCEPT ![c] = <<>>]
    /\ UNCHANGED <<transactions, user_profiles, bundle, calls, processed, lost,
                   version, last_insert, api, loads>>

Init ==
    /\ transactions = {}
    /\ user_profiles = {}
    /\ bundle = [loaded |-> FALSE, threshold |-> 0]
    /\ pc = [c \in Callers |-> "idle"]
    /\ txn = NoCall
    /\ user_profile = NoCall
    /\ velocity = NoCall
    /\ result = NoCall
    /\ profile = NoCall
    /\ calls = 0
    /\ pre = NoCall
    /\ failed_at = NoCall
    /\ written = NoCall
    /\ processed = [u \in UserIds |-> [count |-> 0, whole |-> TRUE, sum |-> Zero, last |-> <<>>]]
    /\ lost = [u \in UserIds |-> FALSE]
    /\ version = [u \in UserIds |-> 0]
    /\ read_version = NoCall
    /\ last_insert = [i \in TxnIds |-> {}]
    /\ trace = [c \in Callers |-> <<>>]
    /\ api = [op |-> "none"]
    /\ loads = 0

\* Concurrent callers of process_transaction on one database
ConcurrentInputs ==
    Transaction({"TXN-1", "TXN-2"}, {1001}, Rupees({100, 300}), {14}, {"Android_A"},
                {"Mumbai"}, {"paytm@upi"}, {Iso(10, 0)})

Step(c, inputs, probabilities, max) ==
    \/ Begin(c, inputs, max)
    \/ ReadProfile(c)
    \/ ReadProfileRaises(c)
    \/ ReadVelocity(c)
    \/ ReadVelocityRaises(c)
    \/ Predict(c, probabilities)
    \/ PredictTestsBundle(c)
    \/ PredictLoads(c, probabilities)
    \/ PredictRaises(c)
    \/ PredictLoadRaises(c)
    \/ PredictRaisesLoaded(c)
    \/ Insert(c)
    \/ InsertRaises(c)
    \/ UpdateRead(c)
    \/ UpdateWrite(c)
    \/ UpdateReadRaises(c)
    \/ UpdateWriteRaises(c)
    \/ Return(c)

Next == \E c \in Callers : Step(c, ConcurrentInputs, {93210}, MaxConcurrentCalls)

Spec == Init /\ [][Next]_vars

\* clear_all_data: DELETE FROM transactions; DELETE FROM user_profiles, at
\* any time and on any store.  The histories restart with the emptied store.
ClearAllData ==
    /\ transactions' = {}
    /\ user_profiles' = {}
    /\ processed' = [u \in UserIds |-> [count |-> 0, whole |-> TRUE, sum |-> Zero, last |-> <<>>]]
    /\ lost' = [u \in UserIds |-> FALSE]
    /\ version' = [u \in UserIds |-> 0]
    /\ last_insert' = [i \in TxnIds |-> {}]
    /\ api' = [op |-> "clear_all_data"]
    /\ UNCHANGED <<bundle, pc, txn, user_profile, velocity, result, profile, calls,
                   pre, failed_at, written, read_version, trace, loads>>

\* no call of process_transaction is in progress
Quiescent == \A c \in Callers : pc[c] = "idle"

\* One caller at a time: a call begins only when no other call is in progress,
\* and the store is cleared between calls
SequentialInputs ==
    Transaction({"TXN-1", "TXN-2"}, UserIds, Rupees(Amounts), {14}, {"Android_A"},
                {"Mumbai"}, {"paytm@upi"}, {Iso(10, 0)})

NextSeq ==
    \/ \E c \in Callers :
          /\ \A d \in Callers \ {c} : pc[d] = "idle"
          /\ Step(c, SequentialInputs, {12000}, MaxCalls)
    \/ Quiescent /\ ClearAllData

SpecSeq == Init /\ [][NextSeq]_vars

\* ------------------------------------------------------------------------
\* Direct calls of the DatabaseManager methods
\* ------------------------------------------------------------------------
StoredTimes ==
    {Iso(9, 0), Iso(10, 0), Iso(10, 30), Iso(10, 55), IsoMinutes(10, 0), <<G>>}

ReferenceTimes ==
    {Iso(11, 0), IsoMinutes(11, 0), IsoHour(11), IsoZulu(11, 0), <<G>>, <<>>}

Scored == [fraud_probability |-> 12000, risk_level |-> "LOW RISK", explanation |-> <<>>]

StoreRows ==
    {FullRecord(t, Scored) :
        t \in Transaction(TxnIds, UserIds, Rupees({100}), {14}, {"Android_A"},
                          {"Mumbai"}, {"paytm@upi"}, StoredTimes)}

\* db.insert_transaction(row)
InsertTransaction ==
    /\ \E row \in StoreRows :
          /\ transactions' = insert_transaction(transactions, row)
          /\ last_insert' = [last_insert EXCEPT ![row.transaction_id] = {row}]
          /\ api' = [op |-> "insert_transaction",
                     transaction_id |-> row.transaction_id,
                     replaced |-> \E r \in transactions :
                                     /\ r.transaction_id = row.transaction_id
                                     /\ r # row]
    /\ UNCHANGED <<user_profiles, bundle, pc, txn, user_profile, velocity, result,
                   profile, calls, pre, failed_at, written, processed, lost,
                   version, read_version, trace, loads>>

\* db.get_transaction_velocity(user_id, current_time)
GetTransactionVelocity ==
    /\ \E u \in UserIds, t \in ReferenceTimes :
          api' = [op |-> "get_transaction_velocity", user_id |-> u,
                  current_time |-> t,
                  ret |-> get_transaction_velocity(transactions, u, t)]
    /\ UNCHANGED <<transactions, user_profiles, bundle, pc, txn, user_profile,
                   velocity, result, profile, calls, pre, failed_at, written,
                   processed, lost, version, read_version, last_insert, trace, loads>>

\* db.get_user_profile(user_id)
GetUserProfile ==
    /\ \E u \in UserIds :
          api' = [op |-> "get_user_profile", user_id |-> u,
                  ret |-> get_user_profile(user_profiles, u)]
    /\ UNCHANGED <<transactions, user_profiles, bundle, pc, txn, user_profile,
                   velocity, result, profile, calls, pre, failed_at, written,
                   processed, lost, version, read_version, last_insert, trace, loads>>

NextStore ==
    \/ InsertTransaction
    \/ GetTransactionVelocity
    \/ GetUserProfile
    \/ ClearAllData

SpecStore == Init /\ [][NextStore]_vars

\* ------------------------------------------------------------------------
\* build_feature_dataframe on an arbitrary feature dict
\* ------------------------------------------------------------------------
Drop(f, i) == SubSeq(f, 1, i - 1) \o SubSeq(f, i + 1, Len(f))

Swap(f, i) == [j \in 1..Len(f) |-> IF j = i THEN f[i + 1] ELSE IF j = i + 1 THEN f[i] ELSE f[j]]

ProfileInputs ==
    {DefaultProfile(1001),
     [user_id |-> 1001, avg_amount |-> Rat(400, 3), last_device |-> "Android_A",
      usual_location |-> "Mumbai", transaction_count |-> 3,
      last_transaction_time |-> Iso(10, 0)]}

\* feature dicts: the engine's, one with a field missing, one with two
\* neighbouring fields exchanged, one with a field that is not in the schema
FeatureInputs ==
    LET base == {compute_behavioral_features(t, p, 1) :
                    t \in Transaction({"TXN-1"}, {1001}, Rupees({100}), {3, 14}, {"iPhone_X"},
                                      {"Mumbai"}, {"Z@upi"}, {Iso(10, 0)}),
                    p \in ProfileInputs}
    IN  base
        \cup {Drop(f, i) : f \in base, i \in 1..Len(FEATURE_COLUMNS)}
        \cup {Swap(f, i) : f \in base, i \in 1..(Len(FEATURE_COLUMNS) - 1)}
        \cup {Append(f, <<"extra_field", 1>>) : f \in base}

\* build_feature_dataframe(features), called on a feature dict: the loop adds
\* every schema column the dict lacks, and df[FEATURE_COLUMNS], the one
\* statement that could raise (KeyError for a column that is not there), then
\* finds them all
BuildFeatureDataframe ==
    /\ \E f \in FeatureInputs :
          LET missing == SelectSeq(FEATURE_COLUMNS, LAMBDA col : col \notin Keys(f))
              df == f \o [i \in 1..Len(missing) |-> <<missing[i], 0>>]
              KeyError == \E i \in 1..Len(FEATURE_COLUMNS) :
                              FEATURE_COLUMNS[i] \notin Keys(df)
          IN  api' = [op |-> "build_feature_dataframe",
                      features |-> f,
                      raised |-> KeyError,
                      ret |-> IF KeyError THEN <<>> ELSE build_feature_dataframe(f)]
    /\ UNCHANGED <<transactions, user_profiles, bundle, pc, txn, user_profile,
                   velocity, result, profile, calls, pre, failed_at, written,
                   processed, lost, version, read_version, last_insert, trace,
                   loads>>

NextAdapter == BuildFeatureDataframe

SpecAdapter == Init /\ [][NextAdapter]_vars

Columns(f) == [i \in 1..Len(f) |-> f[i][1]]

\* C10: a feature dict whose fields or field order differ from the schema
\* ends in an error and is never handed on as a frame to be scored
C10_RejectsMismatch ==
    (api.op = "build_feature_dataframe" /\ Columns(api.features) # FEATURE_COLUMNS)
        => api.raised

\* ------------------------------------------------------------------------
\* Properties of the store
\* ------------------------------------------------------------------------
IsInsert == api'.op = "insert_transaction" /\ last_insert' # last_insert

\* C5: the store holds at most one record per transaction_id, the record held
\* for an id is the payload of the latest insert with that id, and an insert
\* leaves the records with other ids as they were
C5_IdempotentStorageByKey ==
    /\ [](\A r1, r2 \in transactions :
             r1.transaction_id = r2.transaction_id => r1 = r2)
    /\ [](\A r \in transactions : last_insert[r.transaction_id] = {r})
    /\ [](\A i \in TxnIds :
             last_insert[i] # {} => last_insert[i] \subseteq transactions)
    /\ [][api'.op = "insert_transaction" =>
             \A r \in transactions :
                 r.transaction_id # api'.transaction_id => r \in transactions']_vars

\* an id was inserted again with another payload while other ids are stored
C5_Witness ==
    /\ api.op = "insert_transaction"
    /\ api.replaced
    /\ Cardinality(transactions) >= 2

\* the instant a parsable text names, in seconds; a text without a zone is
\* read on the clock of the reference
Instant(s) == fromisoformat(s).seconds - fromisoformat(s).utcoffset

\* C6: for a parsable reference timestamp T (and a store whose timestamps are
\* all parsable), get_transaction_velocity returns exactly the number of the
\* user's records whose timestamp is at or after T - 1h
C6_VelocityWindow ==
    (/\ api.op = "get_transaction_velocity"
     /\ Parsable(api.current_time)
     /\ \A r \in transactions : Parsable(r.timestamp))
        => api.ret = Cardinality({r \in transactions :
                                     /\ r.user_id = api.user_id
                                     /\ Instant(r.timestamp) >=
                                            Instant(api.current_time) - window_hours * 3600})

\* C7: for an unparsable current_time get_transaction_velocity returns the
\* number of all stored transactions of the user, and the call leaves both
\* tables unchanged
C7_UnparsableReference ==
    /\ []((api.op = "get_transaction_velocity" /\ ~Parsable(api.current_time))
             => api.ret = Cardinality({r \in transactions : r.user_id = api.user_id}))
    /\ [][api'.op = "get_transaction_velocity" =>
             /\ transactions' = transactions
             /\ user_profiles' = user_profiles]_vars

\* an unparsable reference counted records on both sides of the 1h window
\* of the parsable reference, and left another user's record out
C7_Witness ==
    /\ api.op = "get_transaction_velocity"
    /\ ~Parsable(api.current_time)
    /\ api.ret = 2
    /\ \E r \in transactions : r.user_id = api.user_id /\ r.timestamp = Iso(9, 0)
    /\ \E r \in transactions : r.user_id = api.user_id /\ r.timestamp = Iso(10, 30)
    /\ \E r \in transactions : r.user_id # api.user_id

\* ------------------------------------------------------------------------
\* Properties of process_transaction
\* ------------------------------------------------------------------------
Order ==
    <<"get_user_profile", "get_transaction_velocity", "predict_fraud",
      "insert_transaction", "update_read", "update_write">>

Did(c, step) == \E i \in 1..Len(trace[c]) : trace[c][i] = step
Does(c, step) == trace'[c] = Append(trace[c], step)

Stored(u) == get_user_profile(user_profiles, u)

\* avg_amount * transaction_count = sum, in exact arithmetic
\* avg_amount names the exact mean of the amounts
NamesMeanOf(p, count, sum) ==
    /\ p.transaction_count = count
    /\ p.avg_amount.n * count * sum.d = sum.n * p.avg_amount.d

\* avg_amount is the double of the exact mean of the amounts
IsMeanOf(p, count, sum) ==
    /\ NamesMeanOf(p, count, sum)
    /\ p.avg_amount.ulps = 0

\* C1 as claimed: in a sequential run from an empty store, every user's stored
\* profile has transaction_count = the number of successful calls for the user
\* and avg_amount * transaction_count = the sum of the amounts of those calls
C1_RunningAverage ==
    \A u \in UserIds :
        /\ IsMeanOf(Stored(u), processed[u].count, processed[u].sum)
        /\ processed[u].count = 0 <=> ~(\E r \in user_profiles : r.user_id = u)

\* C1, corrected: in a sequential run from an empty store, every user's stored
\* profile has transaction_count = the number of successful calls for the
\* user, and avg_amount is the double the recurrence computes in binary64
\* from the doubles of the amounts: the amount itself after the first call
\* and, with three roundings in every later call, at most three doubles per
\* later call away from the double nearest to the mean of the amounts.  For
\* amounts that are whole numbers it is the double nearest to the mean up to
\* seven calls (100, 200, 300 give 200.0 and 3)
C1_RunningAverageRounded ==
    \A u \in UserIds :
        /\ NamesMeanOf(Stored(u), processed[u].count, processed[u].sum)
        /\ processed[u].count = 0 <=> ~(\E r \in user_profiles : r.user_id = u)
        /\ processed[u].count >= 1 =>
               Abs(Stored(u).avg_amount.ulps) <= 3 * (processed[u].count - 1)
        /\ (processed[u].whole /\ processed[u].count <= 7) =>
               Stored(u).avg_amount.ulps = 0
        /\ (processed[u].whole /\ processed[u].count = 3
                /\ processed[u].sum = Rat(600, 1)) =>
               Stored(u).avg_amount = Rat(200, 1)

\* the amounts 0.1, 0.2 and 0.3, summing to 0.6: the stored avg_amount is
\* 0.20000000000000004, the double after 0.2
C1_Witness ==
    \E c \in Callers :
        /\ pc[c] = "return"
        /\ txn[c].amount = Rat(3, 10)
        /\ processed[txn[c].user_id].count = 3
        /\ processed[txn[c].user_id].sum = Rat(3, 5)
        /\ Stored(txn[c].user_id).avg_amount = [n |-> 1, d |-> 5, ulps |-> 1]
        /\ Stored(txn[c].user_id).transaction_count = 3

\* C2: with concurrent callers the stored transaction_count never exceeds the
\* number of completed calls, and it is smaller exactly when a call wrote a row
\* computed from a profile that another call had replaced in between (lost
\* update); without one the mean is exact, and when the second of two
\* completed calls is the stale one the profile is that of a single call
C2_LostUpdate ==
    \A u \in UserIds :
        /\ Stored(u).transaction_count <= version[u]
        /\ Stored(u).transaction_count < version[u] <=> lost[u]
        /\ ~lost[u] => IsMeanOf(Stored(u), processed[u].count, processed[u].sum)
        /\ (lost[u] /\ version[u] = 2) =>
              /\ Stored(u).transaction_count = 1
              /\ Stored(u).avg_amount.d = 1
              /\ processed[u].sum \in {Sum(Stored(u).avg_amount, a) : a \in Rupees(Amounts)}

\* both calls have completed, transaction_count is 1 and avg_amount is not the
\* mean of the two amounts
C2_Witness ==
    /\ \A c \in Callers : pc[c] = "return" /\ txn[c].user_id = 1001
    /\ processed[1001].count = 2
    /\ Stored(1001).transaction_count = 1
    /\ Stored(1001).avg_amount.n * 2 * processed[1001].sum.d
           # processed[1001].sum.n * Stored(1001).avg_amount.d

\* C3 as claimed: the row a call writes is computed from the profile the call
\* read in its first statement
C3_WrittenFromFirstRead ==
    \A c \in Callers :
        pc[c] = "return" =>
            /\ written[c].avg_amount = RunningAverage(user_profile[c], txn[c].amount)
            /\ written[c].transaction_count = user_profile[c].transaction_count + 1

\* C3 amended: the row a call writes is computed inside update_user_profile
\* from the profile that update_user_profile itself read, after the call stored
\* its record
C3_WrittenFromUpdateRead ==
    /\ [](\A c \in Callers :
             pc[c] = "return" =>
                 /\ written[c].avg_amount = RunningAverage(profile[c], txn[c].amount)
                 /\ written[c].transaction_count = profile[c].transaction_count + 1)
    /\ [][\A c \in Callers :
             Does(c, "update_read") =>
                 /\ Did(c, "insert_transaction")
                 /\ profile'[c] = Stored(txn[c].user_id)]_vars

\* a call wrote a row that differs from what its first read would have given
C3_Witness ==
    \E c \in Callers :
        /\ pc[c] = "return"
        /\ profile[c] # user_profile[c]
        /\ written[c].transaction_count = 2
        /\ user_profile[c].transaction_count = 0
        /\ written[c] \in user_profiles

IsPrefix(s, t) == Len(s) <= Len(t) /\ s = SubSeq(t, 1, Len(s))

\* C4: the statements of one call run in the order read profile, read
\* velocity, predict, insert record, update profile; a record is stored only by
\* a call whose prediction has finished and a profile is written only by a call
\* whose record is stored
C4_StepOrder ==
    /\ [](\A c \in Callers : IsPrefix(trace[c], Order))
    /\ [][transactions' # transactions =>
             \E c \in Callers : /\ Does(c, "insert_transaction")
                                /\ Did(c, "predict_fraud")
                                /\ FullRecord(txn[c], result[c]) \in transactions']_vars
    /\ [][user_profiles' # user_profiles =>
             \E c \in Callers : /\ Does(c, "update_write")
                                /\ Did(c, "insert_transaction")
                                /\ Did(c, "predict_fraud")]_vars

\* a call has run all its statements: its record and its profile row are stored
C4_Witness ==
    \E c \in Callers :
        /\ pc[c] = "return"
        /\ trace[c] = Order
        /\ FullRecord(txn[c], result[c]) \in transactions
        /\ written[c] \in user_profiles

\* C8: when predict_fraud raises, the call ends with the exception and both
\* tables are as they were when the call began; the profile table changes only
\* in the update of a call whose prediction succeeded (or in clear_all_data)
C8_ScoringFailure ==
    /\ [](\A c \in Callers :
             (pc[c] = "raised" /\ failed_at[c] = "predict_fraud") =>
                 /\ transactions = pre[c].transactions
                 /\ user_profiles = pre[c].user_profiles)
    /\ [][\A c \in Callers : pc[c] = "raised" => pc'[c] \in {"raised", "idle"}]_vars
    /\ [][user_profiles' # user_profiles =>
             \/ user_profiles' = {}
             \/ \E c \in Callers : Does(c, "update_write") /\ Did(c, "predict_fraud")]_vars

\* prediction raised for a user who has a profile and a stored record
C8_Witness ==
    \E c \in Callers :
        /\ pc[c] = "raised"
        /\ failed_at[c] = "predict_fraud"
        /\ \E r \in user_profiles : r.user_id = txn[c].user_id
        /\ \E r \in transactions : r.user_id = txn[c].user_id

\* C9: when update_user_profile raises (or the process dies in it) the scored
\* record of the call stays stored and the profile table is as it was when the
\* call began; the call does nothing more
C9_PartialFailure ==
    /\ [](\A c \in Callers :
             (pc[c] = "raised" /\ failed_at[c] \in {"update_read", "update_write"}) =>
                 /\ FullRecord(txn[c], result[c]) \in transactions
                 /\ user_profiles = pre[c].user_profiles)
    /\ [][\A c \in Callers :
             pc[c] = "raised" =>
                 /\ pc'[c] \in {"raised", "idle"}
                 /\ transactions' = transactions
                 /\ user_profiles' = user_profiles]_vars

\* the upsert of a second transaction of a user raised: two records of the
\* user are stored and the profile still counts one
C9_Witness ==
    \E c \in Callers :
        /\ pc[c] = "raised"
        /\ failed_at[c] = "update_write"
        /\ Stored(txn[c].user_id).transaction_count = 1
        /\ Cardinality({r \in transactions : r.user_id = txn[c].user_id}) = 2

\* ------------------------------------------------------------------------
\* fraud_prediction.py: _load_model called from several threads
\* ------------------------------------------------------------------------
MaxLoadCalls == 3

\* thresholds of the artifact file, which a retraining may rewrite
ArtifactThresholds == {50000, 70000}

\* predict_fraud or get_model_info is called: bundle = _load_model()
EnterLoadModel(c) ==
    /\ pc[c] = "idle"
    /\ calls < MaxLoadCalls
    /\ calls' = calls + 1
    /\ \E f \in {"predict_fraud", "get_model_info"} : txn' = [txn EXCEPT ![c] = f]
    /\ pc' = [pc EXCEPT ![c] = "if _bundle is None"]
    /\ UNCHANGED <<transactions, user_profiles, bundle, user_profile, velocity,
                   result, profile, pre, failed_at, written, processed, lost,
                   version, read_version, last_insert, trace, api, loads>>

\* if _bundle is None: ... else return _bundle
CheckBundle(c) ==
    /\ pc[c] = "if _bundle is None"
    /\ IF bundle.loaded
       THEN /\ pc' = [pc EXCEPT ![c] = "return _bundle"]
            /\ result' = [result EXCEPT ![c] = bundle]
       ELSE /\ pc' = [pc EXCEPT ![c] = "joblib.load"]
            /\ UNCHANGED result
    /\ UNCHANGED <<transactions, user_profiles, bundle, txn, user_profile, velocity,
                   profile, calls, pre, failed_at, written, processed, lost,
                   version, read_version, last_insert, trace, api, loads>>

\* _bundle = joblib.load(MODEL_PATH); return _bundle
LoadArtifact(c) ==
    /\ pc[c] = "joblib.load"
    /\ \E threshold \in ArtifactThresholds :
          /\ bundle' = [loaded |-> TRUE, threshold |-> threshold]
          /\ result' = [result EXCEPT ![c] = bundle']
    /\ loads' = loads + 1
    /\ pc' = [pc EXCEPT ![c] = "return _bundle"]
    /\ UNCHANGED <<transactions, user_profiles, txn, user_profile, velocity,
                   profile, calls, pre, failed_at, written, processed, lost,
                   version, read_version, last_insert, trace, api>>

\* the artifact is missing (FileNotFoundError) or unreadable: _bundle stays None
LoadArtifactRaises(c) ==
    /\ pc[c] = "joblib.load"
    /\ Raise(c)
    /\ UNCHANGED <<transactions, user_profiles, bundle, txn, user_profile,
                   velocity, result, profile, calls, pre, written, processed,
                   lost, version, read_version, last_insert, trace, api, loads>>

\* the caller goes on with the bundle it was given, or with the exception
LeaveLoadModel(c) ==
    /\ pc[c] \in {"return _bundle", "raised"}
    /\ pc' = [pc EXCEPT ![c] = "idle"]
    /\ txn' = [txn EXCEPT ![c] = None]
    /\ result' = [result EXCEPT ![c] = None]
    /\ failed_at' = [failed_at EXCEPT ![c] = None]
    /\ UNCHANGED <<transactions, user_profiles, bundle, user_profile, velocity,
                   profile, calls, pre, written, processed, lost, version,
                   read_version, last_insert, trace, api, loads>>

NextLoad ==
    \E c \in Callers :
        \/ EnterLoadModel(c)
        \/ CheckBundle(c)
        \/ LoadArtifact(c)
        \/ LoadArtifactRaises(c)
        \/ LeaveLoadModel(c)

SpecLoad == Init /\ [][NextLoad]_vars

\* C11: the artifact is loaded at most once in a process, and once a bundle is
\* held no call replaces it
C11_LoadedOnce ==
    /\ [](loads <= 1)
    /\ [][bundle.loaded => bundle' = bundle]_vars

\* ------------------------------------------------------------------------
\* Direct calls of the profile methods of the DatabaseManager
\* ------------------------------------------------------------------------
\* a caller enters db.update_user_profile(user_id, amount, device_id, location,
\* timestamp); the method is its read (UpdateRead) on one connection followed
\* by its upsert (UpdateWrite) on another, and other callers run in between
MaxProfileCalls == 2

ProfileUpdates ==
    [user_id : UserIds, amount : Rupees({100, 300}),
     device_id : {"Android_A"}, location : {"Mumbai"},
     timestamp : {Iso(10, 0)}]

UpdateUserProfile(c) ==
    /\ pc[c] = "idle"
    /\ calls < MaxProfileCalls
    /\ calls' = calls + 1
    /\ \E update \in ProfileUpdates : txn' = [txn EXCEPT ![c] = update]
    /\ pc' = [pc EXCEPT ![c] = "update_read"]
    /\ pre' = [pre EXCEPT ![c] = Store]
    /\ api' = [op |-> "update_user_profile"]
    /\ UNCHANGED <<transactions, user_profiles, bundle, user_profile, velocity,
                   result, profile, failed_at, written, processed, lost, version,
                   read_version, last_insert, trace, loads>>

NextProfile ==
    \/ \E c \in Callers :
          \/ UpdateUserProfile(c)
          \/ UpdateRead(c)
          \/ UpdateWrite(c)
          \/ UpdateReadRaises(c)
          \/ UpdateWriteRaises(c)
          \/ Return(c)
    \/ GetUserProfile
    \/ ClearAllData

SpecProfile == Init /\ [][NextProfile]_vars

HasProfile(u) == \E r \in user_profiles : r.user_id = u

\* C12: get_user_profile of a user without a profile row returns the default
\* profile (avg_amount 0, last_device and usual_location empty,
\* transaction_count 0, last_transaction_time empty), and the lookup leaves the
\* profile table and the transaction table unchanged
C12_DefaultProfileOnLookup ==
    /\ []((api.op = "get_user_profile" /\ ~HasProfile(api.user_id)) =>
             /\ api.ret.user_id = api.user_id
             /\ api.ret.avg_amount = Zero
             /\ api.ret.last_device = ""
             /\ api.ret.usual_location = ""
             /\ api.ret.transaction_count = 0
             /\ api.ret.last_transaction_time = <<>>)
    /\ [][(api' # api /\ api'.op = "get_user_profile") =>
             /\ user_profiles' = user_profiles
             /\ transactions' = transactions]_vars

\* the profile of a user without a row was looked up while another user has one
C12_Witness ==
    /\ api.op = "get_user_profile"
    /\ ~HasProfile(api.user_id)
    /\ api.ret.transaction_count = 0
    /\ \E r \in user_profiles : r.user_id # api.user_id /\ r.transaction_count = 2

\* ------------------------------------------------------------------------
\* process_transaction on transactions of every shape, one caller
\* ------------------------------------------------------------------------
MaxShapeCalls == 2

\* amounts and hours vary with categories outside the enumerations; devices,
\* locations and merchants vary inside and outside the enumerations
ShapeInputs ==
    Transaction({"TXN-1", "TXN-2"}, {1001}, Rupees({100, 300}), {3, 14}, {"X"}, {"Y"},
                {"Z@upi"}, {Iso(10, 0)})
    \cup
    Transaction({"TXN-1", "TXN-2"}, {1001}, Rupees({100}), {14}, {"X", "Android_A"},
                {"Y", "Mumbai"}, {"Z@upi", "paytm@upi"}, {Iso(10, 0)})

NextShape == Step("c1", ShapeInputs, {12000}, MaxShapeCalls)

SpecShape == Init /\ [][NextShape]_vars

\* the store held neither a profile row nor a transaction of the user when the
\* call began
FirstTransaction(c) ==
    /\ \A r \in pre[c].user_profiles : r.user_id # txn[c].user_id
    /\ \A r \in pre[c].transactions : r.user_id # txn[c].user_id

MerchantBlock(features) == SubSeq(features, 20, 24)

\* C13: the features scored for the first transaction of a user (no profile
\* row, no stored transaction) have avg_user_amount 0, amount_deviation 0,
\* is_new_device 0, location_change_flag 0 and transaction_velocity 1, and a
\* merchant outside MERCHANTS gives an all-zero merchant block
C13_FirstTransactionFeatures ==
    \A c \in Callers :
        (Did(c, "predict_fraud") /\ FirstTransaction(c)) =>
            LET features == result[c].features
            IN  /\ Get(features, "avg_user_amount", None) = Zero
                /\ Get(features, "amount_deviation", None) = 0
                /\ Get(features, "is_new_device", None) = 0
                /\ Get(features, "location_change_flag", None) = 0
                /\ Get(features, "transaction_velocity", None) = 1
                /\ (\A i \in 1..Len(MERCHANTS) : MERCHANTS[i] # txn[c].merchant_id) =>
                       \A i \in 1..Len(MerchantBlock(features)) :
                           MerchantBlock(features)[i][2] = 0

\* a first transaction of 300 at hour 3 from device "X", location "Y",
\* merchant "Z@upi" was scored: night, no deviation, no known merchant
C13_Witness ==
    /\ Did("c1", "predict_fraud")
    /\ FirstTransaction("c1")
    /\ txn["c1"].amount = Rat(300, 1)
    /\ txn["c1"].hour = 3
    /\ txn["c1"].merchant_id = "Z@upi"
    /\ Get(result["c1"].features, "is_night", None) = 1
    /\ Get(result["c1"].features, "amount_deviation", None) = 0
    /\ Len(MerchantBlock(result["c1"].features)) = Len(MERCHANTS)

\* ------------------------------------------------------------------------
\* Direct calls of compute_behavioral_features, predict_fraud and
\* generate_explanation: one call per behaviour
\* ------------------------------------------------------------------------
Hours == 0..23

\* amounts whose deviation lies halfway between two roundings
HalfwayTransactions ==
    Transaction({"TXN-1"}, {1001}, Rupees({7, 345}), {14}, {"Android_A"}, {"Mumbai"},
                {"paytm@upi"}, {Iso(10, 0)})

FeatureTransactions ==
    HalfwayTransactions
    \cup
    Transaction({"TXN-1"}, {1001}, Rupees({100}), Hours, {"Android_A"}, {"Mumbai"},
                {"paytm@upi"}, {Iso(10, 0)})
    \cup
    Transaction({"TXN-1"}, {1001}, Rupees({1, 100, 300}), {3, 14},
                {"Android_A", "iPhone_X", "X"}, {"Mumbai", "Y"},
                {"paytm@upi", "Z@upi"}, {Iso(10, 0)})

Profile(avg_amount, last_device, usual_location, transaction_count) ==
    [user_id |-> 1001, avg_amount |-> avg_amount, last_device |-> last_device,
     usual_location |-> usual_location, transaction_count |-> transaction_count,
     last_transaction_time |-> Iso(9, 0)]

FeatureProfiles ==
    {DefaultProfile(1001),
     Profile(Rat(100, 1), "Android_A", "Mumbai", 1),
     Profile(Rat(400, 3), "iPhone_X", "Delhi", 3),
     Profile(Rat(1, 2), "", "Mumbai", 2),
     Profile(Rat(100, 1), "Android_A", "", 1)}

\* averages against which the halfway amounts are scored
HalfwayProfiles ==
    {Profile(Rat(160, 1), "Android_A", "Mumbai", 2),
     Profile(Rat(32, 3), "Android_A", "Mumbai", 3)}

ProfilesFor(t) ==
    IF t \in HalfwayTransactions
    THEN FeatureProfiles \cup HalfwayProfiles ELSE FeatureProfiles

Velocities == {0, 1, 6}

ClassifierProbabilities == {12000, 49996, 49999, 50000, 50001, 93210}

\* with the halfway amounts go probabilities halfway between two roundings
ProbabilitiesFor(t) ==
    IF t \in HalfwayTransactions
    THEN ClassifierProbabilities \cup {5, 12350}
    ELSE ClassifierProbabilities

\* a caller of generate_explanation may pass a dict with the merchant flag set
WithNewMerchant(features) ==
    [i \in 1..Len(features) |->
        IF features[i][1] = "is_new_merchant"
        THEN <<"is_new_merchant", 1>> ELSE features[i]]

\* compute_behavioral_features(transaction, user_profile, transaction_velocity)
ComputeBehavioralFeatures ==
    /\ calls = 0
    /\ calls' = 1
    /\ \E t \in FeatureTransactions, v \in Velocities :
       \E p \in ProfilesFor(t) :
          api' = [op |-> "compute_behavioral_features", transaction |-> t,
                  user_profile |-> p, transaction_velocity |-> v,
                  ret |-> compute_behavioral_features(t, p, v)]
    /\ UNCHANGED <<transactions, user_profiles, bundle, pc, txn, user_profile,
                   velocity, result, profile, pre, failed_at, written, processed,
                   lost, version, read_version, last_insert, trace, loads>>

\* predict_fraud(transaction, user_profile, transaction_velocity); the
\* classifier returns some probability
PredictFraud ==
    /\ calls = 0
    /\ calls' = 1
    /\ \E t \in FeatureTransactions, v \in Velocities :
       \E p \in ProfilesFor(t), fraud_probability \in ProbabilitiesFor(t),
          threshold \in ArtifactThresholds :
          /\ bundle' = load_model(threshold)
          /\ loads' = IF bundle.loaded THEN loads ELSE loads + 1
          /\ api' = [op |-> "predict_fraud", transaction |-> t,
                     user_profile |-> p, transaction_velocity |-> v,
                     fraud_probability |-> fraud_probability,
                     threshold |-> bundle'.threshold,
                     ret |-> predict_fraud(t, p, v, fraud_probability,
                                           bundle'.threshold)]
    /\ UNCHANGED <<transactions, user_profiles, pc, txn, user_profile,
                   velocity, result, profile, pre, failed_at, written, processed,
                   lost, version, read_version, last_insert, trace>>

\* generate_explanation(features, fraud_probability, threshold)
GenerateExplanation ==
    /\ calls = 0
    /\ calls' = 1
    /\ \E t \in FeatureTransactions, v \in Velocities :
       \E p \in ProfilesFor(t), fraud_probability \in ProbabilitiesFor(t),
          threshold \in ArtifactThresholds, injected \in BOOLEAN :
          LET computed == compute_behavioral_features(t, p, v)
              features == IF injected THEN WithNewMerchant(computed) ELSE computed
          IN  api' = [op |-> "generate_explanation", features |-> features,
                      fraud_probability |-> fraud_probability,
                      threshold |-> threshold,
                      ret |-> generate_explanation(features, fraud_probability,
                                                   threshold)]
    /\ UNCHANGED <<transactions, user_profiles, bundle, pc, txn, user_profile,
                   velocity, result, profile, pre, failed_at, written, processed,
                   lost, version, read_version, last_insert, trace, loads>>

NextFeatures ==
    \/ ComputeBehavioralFeatures
    \/ PredictFraud
    \/ GenerateExplanation

SpecFeatures == Init /\ [][NextFeatures]_vars

Computed == api.op = "compute_behavioral_features"

\* C14: is_new_device is 1 exactly when last_device is non-empty and differs
\* from device_id, location_change_flag is 1 exactly when usual_location is
\* non-empty and differs from location; an empty last_device (usual_location)
\* gives 0
C14_ChangeFlags ==
    Computed =>
        LET device == Get(api.ret, "is_new_device", None)
            place == Get(api.ret, "location_change_flag", None)
        IN  /\ device \in {0, 1}
            /\ place \in {0, 1}
            /\ device = 1 <=> (/\ api.user_profile.last_device # ""
                               /\ api.user_profile.last_device # api.transaction.device_id)
            /\ place = 1 <=> (/\ api.user_profile.usual_location # ""
                              /\ api.user_profile.usual_location # api.transaction.location)
            /\ api.user_profile.last_device = "" => device = 0
            /\ api.user_profile.usual_location = "" => place = 0

\* with last_device empty and a usual_location that differs: only the location
\* flag is raised
C14_Witness ==
    /\ Computed
    /\ api.user_profile.last_device = ""
    /\ api.user_profile.usual_location = "Mumbai"
    /\ api.transaction.location = "Y"
    /\ Get(api.ret, "is_new_device", None) = 0
    /\ Get(api.ret, "location_change_flag", None) = 1

RECURSIVE BlockSum(_, _, _)
\* the sum of the values of the items first..last of the feature dict
BlockSum(features, first, last) ==
    IF first > last THEN 0
    ELSE features[first][2] + BlockSum(features, first + 1, last)

Member(cats, value) == \E i \in 1..Len(cats) : cats[i] = value

\* C15: compute_behavioral_features returns exactly the 24 fields of
\* FEATURE_COLUMNS in that order; the location block (5), the device block (4)
\* and the merchant block (5) each sum to 1 when the category is in the
\* enumeration and are all zero when it is not
C15_SchemaAndOneHot ==
    Computed =>
        /\ Len(api.ret) = 24
        /\ Len(FEATURE_COLUMNS) = 24
        /\ \A i \in 1..Len(api.ret) : api.ret[i][1] = FEATURE_COLUMNS[i]
        /\ \A i \in 11..24 : api.ret[i][2] \in {0, 1}
        /\ BlockSum(api.ret, 11, 15) =
              IF Member(LOCATIONS, api.transaction.location) THEN 1 ELSE 0
        /\ BlockSum(api.ret, 16, 19) =
              IF Member(DEVICES, api.transaction.device_id) THEN 1 ELSE 0
        /\ BlockSum(api.ret, 20, 24) =
              IF Member(MERCHANTS, api.transaction.merchant_id) THEN 1 ELSE 0
        /\ Get(api.ret, "location_" \o api.transaction.location, 0) =
              BlockSum(api.ret, 11, 15)
        /\ Get(api.ret, "device_id_" \o api.transaction.device_id, 0) =
              BlockSum(api.ret, 16, 19)
        /\ Get(api.ret, "merchant_id_" \o api.transaction.merchant_id, 0) =
              BlockSum(api.ret, 20, 24)

\* an unknown device with a known location and merchant: the device block is
\* all zero, the others hold a single 1
C15_Witness ==
    /\ Computed
    /\ api.transaction.device_id = "X"
    /\ api.transaction.location = "Mumbai"
    /\ api.transaction.merchant_id = "paytm@upi"
    /\ BlockSum(api.ret, 16, 19) = 0
    /\ Get(api.ret, "location_Mumbai", 0) = 1
    /\ Get(api.ret, "merchant_id_paytm@upi", 0) = 1

\* C16: amount_deviation is 0 when avg_amount is 0 and otherwise is
\* |amount - avg_amount| / max(avg_amount, 1) rounded to 4 decimals; for
\* 0 < avg_amount < 1 the divisor is 1
C16_AmountDeviation ==
    Computed =>
        LET avg == api.user_profile.avg_amount
            deviation == Get(api.ret, "amount_deviation", None)
            amount == api.transaction.amount
            distance == Abs(amount.n * avg.d - avg.n * amount.d)
        IN  /\ avg.n = 0 => deviation = 0
            /\ avg.n >= avg.d =>
                   2 * Abs(deviation * avg.n * amount.d - 10000 * distance)
                       <= avg.n * amount.d
            /\ (0 < avg.n /\ avg.n < avg.d) =>
                   2 * Abs(deviation * avg.d * amount.d - 10000 * distance)
                       <= avg.d * amount.d

\* amount 1 against an average of 0.5: deviation 0.5, not 1.0
C16_Witness ==
    /\ Computed
    /\ api.user_profile.avg_amount = Rat(1, 2)
    /\ api.transaction.amount = Rat(1, 1)
    /\ Get(api.ret, "amount_deviation", None) = 5000

Predicted == api.op = "predict_fraud"

\* C17: predict_fraud returns "HIGH RISK" exactly when the classifier's
\* probability is >= the threshold (equal included) and "LOW RISK" otherwise,
\* whatever the transaction, the profile and the velocity
C17_InclusiveThreshold ==
    Predicted =>
        /\ api.ret.risk_level \in {"HIGH RISK", "LOW RISK"}
        /\ api.ret.risk_level = "HIGH RISK" <=> api.fraud_probability >= api.threshold
        /\ api.ret.risk_level = "LOW RISK" <=> api.fraud_probability < api.threshold

\* a probability equal to the threshold was classified high risk
C17_Witness ==
    /\ Predicted
    /\ api.fraud_probability = api.threshold
    /\ api.ret.risk_level = "HIGH RISK"

AnomalyOrder ==
    <<"Unusual transaction amount", "New device detected",
      "Unusual transaction time", "Location change detected",
      "New merchant detected", "Rapid sequential transactions">>

\* the anomalies of a feature dict, by the text of their lines
Triggered(features) ==
    {text \in {AnomalyOrder[i] : i \in 1..Len(AnomalyOrder)} :
        \/ text = AnomalyOrder[1] /\ Get(features, "amount_deviation", 0) > 15000
        \/ text = AnomalyOrder[2] /\ Get(features, "is_new_device", 0) = 1
        \/ text = AnomalyOrder[3] /\ Get(features, "is_night", 0) = 1
        \/ text = AnomalyOrder[4] /\ Get(features, "location_change_flag", 0) = 1
        \/ text = AnomalyOrder[5] /\ Get(features, "is_new_merchant", 0) = 1
        \/ text = AnomalyOrder[6] /\ Get(features, "transaction_velocity", 0) > 5}

Position(text) == CHOOSE i \in 1..Len(AnomalyOrder) : AnomalyOrder[i] = text

Texts(lines) == {lines[i][1] : i \in 1..Len(lines)}

\* header first, probability second, then exactly the triggered anomalies in
\* the fixed order, or the single "no anomalies" line when none is triggered
WellFormed(lines, features, fraud_probability, threshold) ==
    LET tail == SubSeq(lines, 3, Len(lines))
    IN  /\ Len(lines) >= 3
        /\ lines[1][1] = IF fraud_probability >= threshold
                         THEN "HIGH RISK TRANSACTION DETECTED"
                         ELSE "Transaction appears normal"
        /\ lines[2][1] = "Fraud Probability"
        /\ IF Triggered(features) = {}
           THEN /\ Len(lines) = 3
                /\ lines[3][1] = "No specific behavioral anomalies detected"
           ELSE /\ Texts(tail) = Triggered(features)
                /\ \A i \in 1..Len(tail), j \in 1..Len(tail) :
                       i < j => Position(tail[i][1]) < Position(tail[j][1])

Explained == api.op = "generate_explanation"

\* C18: generate_explanation emits the header first (high-risk header exactly
\* when probability >= threshold, agreeing with the risk level of the same
\* prediction), the probability line second, then the triggered anomaly lines
\* in the order deviation > 1.5, new device, night, location change, new
\* merchant, velocity > 5; the "no anomalies" line is appended exactly when no
\* anomaly is triggered, giving 3 lines
C18_ExplanationStructure ==
    /\ Explained =>
           WellFormed(api.ret, api.features, api.fraud_probability, api.threshold)
    /\ Predicted =>
           /\ WellFormed(api.ret.explanation, api.ret.features,
                         api.fraud_probability, api.threshold)
           /\ api.ret.risk_level = "HIGH RISK" <=>
                  api.ret.explanation[1][1] = "HIGH RISK TRANSACTION DETECTED"

\* all six anomalies at once: 8 lines, the new-merchant line before the
\* velocity line
C18_Witness ==
    /\ Explained
    /\ Triggered(api.features) = {AnomalyOrder[i] : i \in 1..Len(AnomalyOrder)}
    /\ Len(api.ret) = 8
    /\ api.ret[7][1] = "New merchant detected"
    /\ api.ret[8] = <<"Rapid sequential transactions", 6>>

\* C19: is_new_merchant is 0 in the features of every transaction, profile and
\* velocity, and no explanation returned by predict_fraud has the "new
\* merchant" line
C19_NewMerchantNeverFlagged ==
    /\ Computed => Get(api.ret, "is_new_merchant", None) = 0
    /\ Predicted =>
           /\ Get(api.ret.features, "is_new_merchant", None) = 0
           /\ "New merchant detected" \notin Texts(api.ret.explanation)

\* a merchant outside the enumeration, scored against a profile with history:
\* other anomalies are reported, the merchant is not
C19_Witness ==
    /\ Predicted
    /\ api.transaction.merchant_id = "Z@upi"
    /\ api.user_profile.transaction_count = 3
    /\ "New device detected" \in Texts(api.ret.explanation)
    /\ "New merchant detected" \notin Texts(api.ret.explanation)

\* C20: is_night is 1 for every hour in 0..6 and 0 for every hour in 7..23
C20_NightHours ==
    Computed =>
        /\ api.transaction.hour \in 0..6 => Get(api.ret, "is_night", None) = 1
        /\ api.transaction.hour \in 7..23 => Get(api.ret, "is_night", None) = 0

\* hour 6 is night
C20_Witness ==
    /\ Computed
    /\ api.transaction.hour = 6
    /\ Get(api.ret, "is_night", None) = 1

\* ------------------------------------------------------------------------
\* Sequential, successful calls of process_transaction with ids that callers
\* may submit again, and clear_all_data
\* ------------------------------------------------------------------------
\* the statements of a call in which nothing raises
Succeed(c, inputs, probabilities, max) ==
    \/ Begin(c, inputs, max)
    \/ ReadProfile(c)
    \/ ReadVelocity(c)
    \/ Predict(c, probabilities)
    \/ PredictTestsBundle(c)
    \/ PredictLoads(c, probabilities)
    \/ Insert(c)
    \/ UpdateRead(c)
    \/ UpdateWrite(c)
    \/ Return(c)

Sequential(c) == \A d \in Callers \ {c} : pc[d] = "idle"

ResubmitInputs ==
    Transaction({"TXN-1", "TXN-2"}, UserIds, Rupees({100}), {14}, {"Android_A"},
                {"Mumbai"}, {"paytm@upi"}, {Iso(10, 0)})

BoundaryProbabilities == {12000, 49996, 50000}

NextResubmit ==
    \/ \E c \in Callers :
          /\ Sequential(c)
          /\ Succeed(c, ResubmitInputs, BoundaryProbabilities, MaxCalls)
    \/ Quiescent /\ ClearAllData

SpecResubmit == Init /\ [][NextResubmit]_vars


RecordsOf(u) == {r \in transactions : r.user_id = u}

\* C21: between sequential successful calls and clear_all_data operations,
\* every user's transaction_count equals the number of stored records of the
\* user (ids may repeat), and clear_all_data leaves both at zero
C21_CountMatchesRecords ==
    /\ [](Quiescent =>
             \A u \in UserIds :
                 Stored(u).transaction_count = Cardinality(RecordsOf(u)))
    /\ [][api'.op = "clear_all_data" /\ api' # api =>
             \A u \in UserIds :
                 /\ get_user_profile(user_profiles', u).transaction_count = 0
                 /\ \A r \in transactions' : r.user_id # u]_vars

\* C22: every stored record has risk_level "HIGH RISK" exactly when its stored
\* fraud_probability (rounded to 4 decimals) is >= the threshold of the bundle
\* that scored it
C22_StoredRecordConsistent ==
    bundle.loaded =>
        \A r \in transactions :
            r.risk_level = "HIGH RISK" <=> r.fraud_probability >= bundle.threshold

\* ------------------------------------------------------------------------
\* Sequential calls with changing devices, locations and timestamps
\* ------------------------------------------------------------------------
MaxTrackCalls == 3

TrackInputs ==
    Transaction({"TXN-1"}, {1001}, Rupees({100}), {14}, {"Android_A", "iPhone_X"},
                {"Mumbai"}, {"paytm@upi"}, {Iso(10, 0), Iso(9, 0)})
    \cup
    Transaction({"TXN-2"}, {1001}, Rupees({100}), {14}, {"iPhone_X"}, {"Delhi"},
                {"paytm@upi"}, {Iso(10, 0)})
    \cup
    Transaction({"TXN-3"}, {1002}, Rupees({100}), {14}, {"iPhone_X"}, {"Delhi"},
                {"paytm@upi"}, {Iso(10, 0)})
    \cup
    Transaction({"TXN-3"}, {1001}, Rupees({100}), {14}, {""}, {"Mumbai"},
                {"paytm@upi"}, {Iso(10, 0)})

NextTrack ==
    \/ \E c \in Callers :
          /\ Sequential(c)
          /\ Step(c, TrackInputs, {12000}, MaxTrackCalls)
    \/ Quiescent /\ ClearAllData

SpecTrack == Init /\ [][NextTrack]_vars

\* the caller holds a prediction and has not yet written the profile
Scoring(c) == pc[c] \in {"insert_transaction", "update_read", "update_write"}

\* C23: in a sequential run, when process_transaction(t) returns the user's
\* profile has last_device = t.device_id, usual_location = t.location and
\* last_transaction_time = t.timestamp, whatever the timestamp stored before;
\* the profile holds the values of the user's last processed transaction, and
\* a later transaction of the user (non-empty device ids) is scored with
\* is_new_device = 1 exactly when its device differs from that transaction's
C23_ProfileTracksLast ==
    /\ \A c \in Callers :
           pc[c] = "return" =>
               /\ Stored(txn[c].user_id).last_device = txn[c].device_id
               /\ Stored(txn[c].user_id).usual_location = txn[c].location
               /\ Stored(txn[c].user_id).last_transaction_time = txn[c].timestamp
    /\ \A u \in UserIds :
           processed[u].count > 0 =>
               processed[u].last = <<Stored(u).last_device, Stored(u).usual_location,
                                     Stored(u).last_transaction_time>>
    /\ \A c \in Callers :
           (/\ Scoring(c)
            /\ processed[txn[c].user_id].count >= 1
            /\ processed[txn[c].user_id].last[1] # ""
            /\ txn[c].device_id # "") =>
               (Get(result[c].features, "is_new_device", None) = 1
                   <=> txn[c].device_id # processed[txn[c].user_id].last[1])

\* the third transaction of a user returned: it carries an earlier timestamp
\* and another device than the second, and was scored as a new device
C23_Witness ==
    \E c \in Callers :
        /\ pc[c] = "return"
        /\ processed[txn[c].user_id].count = 3
        /\ txn[c].timestamp = Iso(9, 0)
        /\ \E r \in pre[c].user_profiles :
              /\ r.user_id = txn[c].user_id
              /\ r.last_transaction_time = Iso(10, 0)
              /\ r.last_device # txn[c].device_id
        /\ Stored(txn[c].user_id).last_transaction_time = Iso(9, 0)
        /\ Get(result[c].features, "is_new_device", None) = 1

\* ------------------------------------------------------------------------
\* Sequential, successful calls with timestamps inside and outside one window
\* ------------------------------------------------------------------------
WindowInputs ==
    Transaction(TxnIds, {1001}, Rupees({100}), {14}, {"Android_A"}, {"Mumbai"},
                {"paytm@upi"}, {IsoMinutes(10, 0), Iso(10, 30), Iso(11, 0)})

NextWindow ==
    \E c \in Callers :
        /\ Sequential(c)
        /\ Succeed(c, WindowInputs, {12000}, MaxCalls)

SpecWindow == Init /\ [][NextWindow]_vars

\* the id of the call was not stored when the call began
Fresh(c) == \A r \in pre[c].transactions : r.transaction_id # txn[c].transaction_id

\* C24: the transaction_velocity feature of a transaction with a fresh id is
\* max(n, 1), n being the number of the user's records persisted before the
\* call with timestamp >= the transaction's timestamp - 1h; the first and the
\* second transaction of a user are both scored with velocity 1
C24_VelocityFeature ==
    \A c \in Callers :
        (Did(c, "predict_fraud") /\ Fresh(c)) =>
            LET u == txn[c].user_id
                n == Cardinality({r \in pre[c].transactions :
                                     /\ r.user_id = u
                                     /\ Instant(r.timestamp) >=
                                            Instant(txn[c].timestamp) - window_hours * 3600})
                feature == Get(result[c].features, "transaction_velocity", None)
            IN  /\ feature = Max(n, 1)
                /\ feature >= 1
                /\ Cardinality({r \in pre[c].transactions : r.user_id = u}) <= 1 =>
                       feature = 1

\* ------------------------------------------------------------------------
\* Sequential, successful calls of one user, long enough for the stored
\* average to leave the double of the mean
\* ------------------------------------------------------------------------
MaxDriftCalls == 8

\* float amounts (data_processing.py and database_manager.py take any): one
\* user pays whole amounts, the other decimals such as 0.1, 0.2 and 0.3 and at
\* times a whole amount
DriftInputs ==
    Transaction({"TXN-1"}, {1001}, Rupees(Amounts), {14}, {"Android_A"},
                {"Mumbai"}, {"paytm@upi"}, {Iso(10, 0)})
    \cup Transaction({"TXN-1"}, {1002},
                     {Rat(1, 10), Rat(1, 5), Rat(3, 10), Rat(100, 1)}, {14},
                     {"Android_A"}, {"Mumbai"}, {"paytm@upi"}, {Iso(10, 0)})

\* every call of a run is for the user who has the profile
OneUser == \A c \in Callers : \A r \in user_profiles :
               pc[c] # "idle" => txn[c].user_id = r.user_id

NextDrift ==
    \E c \in Callers :
        /\ Sequential(c)
        /\ Succeed(c, DriftInputs, {12000}, MaxDriftCalls)
        /\ OneUser'

SpecDrift == Init /\ [][NextDrift]_vars

====
